---- MODULE Spec2Model ----
(***************************************************************************)
(* Model of the docspec prompt-preparation script                          *)
(* (.github/scripts/prepare-docspec-check-prompt.py) and of the helpers it *)
(* shares with .github/actions/docspec-check/scripts/docspec_check.py.     *)
(*                                                                         *)
(* A path is a record [dir, name]: dir is the sequence of directory names  *)
(* and name is the file name split at its dots (every "." is an element of *)
(* its own), so that suffix tests and suffix stripping are computed on the *)
(* name and not assumed.  Text (a diff) is a sequence of characters.       *)
(***************************************************************************)
EXTENDS Naturals, Integers, Sequences, FiniteSets, TLC

VARIABLES
    pc,              \* position of the running function
    env,             \* os.environ: which required variables are set
    MAX_DOCSPECS,    \* int(os.getenv("MAX_DOCSPECS", "10")), read at import
    MAX_DIFF_CHARS,  \* int(os.getenv("MAX_DIFF_CHARS", "120000"))
    fs,              \* file system: kind of every path ("none"/"file"/"link")
    scan_rev,        \* file system: directory enumeration order (os.scandir)
    changed,         \* main: result of list_changed_files
    diff,            \* main: result of pr_diff_text
    candidates,      \* find_candidate_docspecs: list before de-duplication
    docspec_paths,   \* main: result of find_candidate_docspecs
    idx,             \* main: index of the next docspec_path of the for loop
    prompt_parts,    \* main: the list of prompt parts
    docspecs_added,  \* main: number of sections added
    stdout,          \* what was printed
    exit_code,       \* -1 while running, then the exit status of the process
    prompt_file,     \* the file named by PROMPT_OUTPUT_FILE
    call,            \* argument and result of a function applied on its own
    raised,          \* the exception that ended the run (None while there is none)
    invoked,         \* the external commands run so far, with their outcomes
    written          \* the files written during the run

vars == <<pc, env, MAX_DOCSPECS, MAX_DIFF_CHARS, fs, scan_rev, changed, diff,
          candidates, docspec_paths, idx, prompt_parts, docspecs_added,
          stdout, exit_code, prompt_file, call, raised, invoked, written>>

-----------------------------------------------------------------------------
(* Bounds of the model *)

MaxChanged == 2        \* lines of `git diff --name-only` output
MaxDocspecsEnv == 2    \* largest value of the MAX_DOCSPECS variable
MaxDiffLen == 5        \* characters of `git diff` output
MaxDiffCharsEnv == 3   \* largest value of the MAX_DIFF_CHARS variable
MaxNameLen == 5        \* elements of a file name given to the path mapping
MaxTemplateLen == 5    \* characters of a template given to substitute_template
MaxPatchLen == 3       \* elements of a patch returned by Claude

-----------------------------------------------------------------------------
(* Sequences *)

Range(s) == {s[i] : i \in 1..Len(s)}

Min(a, b) == IF a <= b THEN a ELSE b

SeqsUpTo(S, n) == UNION {[1..k -> S] : k \in 0..n}

\* Prefix cut one element too late
Prefix_OneMore(s, n) == SubSeq(s, 1, Min(n + 1, Len(s)))

\* Python s[:n] for n >= 0
Prefix(s, n) == SubSeq(s, 1, Min(n, Len(s)))

\* Python s.endswith(suffix)
EndsWith(s, suffix) ==
    /\ Len(s) >= Len(suffix)
    /\ SubSeq(s, Len(s) - Len(suffix) + 1, Len(s)) = suffix

-----------------------------------------------------------------------------
(* Paths *)

DOT_DOCSPEC_MD == <<".", "docspec", ".", "md">>
DOT_MD == <<".", "md">>

None == <<>>
Some(x) == <<x>>

\* Path(".").resolve(): the repository root, an absolute directory
repo_root == <<"w", "repo">>

\* Path.parent of a directory; the root of the file system is its own parent
Parent(d) == IF d = <<>> THEN <<>> ELSE SubSeq(d, 1, Len(d) - 1)

\* repo_root / f
Join(root, f) == [dir |-> root \o f.dir, name |-> f.name]

\* p.relative_to(root)
RelativeTo(p, root) ==
    [dir |-> SubSeq(p.dir, Len(root) + 1, Len(p.dir)), name |-> p.name]

\* RE_DOCSPEC.match(f): the path string ends in ".docspec.md"
RE_DOCSPEC(f) == EndsWith(f.name, DOT_DOCSPEC_MD)

\* target_markdown_for_docspec testing for ".md" only
target_markdown_for_docspec_AnyMd(docspec_path) ==
    LET name == docspec_path.name IN
    IF EndsWith(name, DOT_MD)
    THEN Some([dir  |-> docspec_path.dir,
               name |-> SubSeq(name, 1, Len(name) - Len(DOT_MD)) \o DOT_MD])
    ELSE None

target_markdown_for_docspec(docspec_path) ==
    LET name == docspec_path.name IN
    IF EndsWith(name, DOT_DOCSPEC_MD)
    THEN Some([dir  |-> docspec_path.dir,
               name |-> SubSeq(name, 1, Len(name) - Len(DOT_DOCSPEC_MD)) \o DOT_MD])
    ELSE None

-----------------------------------------------------------------------------
(* The file system *)

F_README_DS == [dir |-> <<>>, name |-> <<"README", ".", "docspec", ".", "md">>]
F_README_MD == [dir |-> <<>>, name |-> <<"README", ".", "md">>]
F_API_DS == [dir |-> <<"a">>, name |-> <<"API", ".", "docspec", ".", "md">>]
F_API_MD == [dir |-> <<"a">>, name |-> <<"API", ".", "md">>]
F_L_DS == [dir |-> <<"a">>, name |-> <<"L", ".", "docspec", ".", "md">>]
F_X_TS == [dir |-> <<"a", "b">>, name |-> <<"x", ".", "ts">>]

\* the repository-relative paths of the model, in enumeration order
Tree == <<F_README_DS, F_README_MD, F_API_DS, F_API_MD, F_L_DS, F_X_TS>>

Universe == {Join(repo_root, f) : f \in Range(Tree)}

\* a/L.docspec.md, when it is a symbolic link, points to README.docspec.md
LinkTarget(p) == Join(repo_root, F_README_DS)

FsStates ==
    {f \in [Universe -> {"none", "file", "link"}] :
        \A p \in Universe : f[p] = "link" => p = Join(repo_root, F_L_DS)}

Kind(p) == IF p \in DOMAIN fs THEN fs[p] ELSE "none"

\* Path.resolve(): the canonical path, symbolic links followed
resolve(p) == IF Kind(p) = "link" THEN LinkTarget(p) ELSE p

\* Path.exists(): follows symbolic links, false for a dangling link
exists(p) == Kind(resolve(p)) = "file"

\* the order in which a directory enumerates its entries
ScanOrder ==
    IF scan_rev THEN [i \in 1..Len(Tree) |-> Tree[Len(Tree) + 1 - i]] ELSE Tree

\* Glob that also lists the entries of the directories below (rglob)
Glob_Recursive(current_dir) ==
    LET IsHit(f) == /\ Len(current_dir) <= Len(Join(repo_root, f).dir)
                    /\ SubSeq(Join(repo_root, f).dir, 1, Len(current_dir)) = current_dir
                    /\ Kind(Join(repo_root, f)) # "none"
                    /\ EndsWith(f.name, DOT_DOCSPEC_MD)
        hits == SelectSeq(ScanOrder, IsHit)
    IN  [i \in 1..Len(hits) |-> Join(repo_root, hits[i])]

\* current_dir.glob("*.docspec.md"): the entries of the directory itself
\* whose name matches, in enumeration order (dangling links included)
Glob(current_dir) ==
    LET IsHit(f) == /\ Join(repo_root, f).dir = current_dir
                    /\ Kind(Join(repo_root, f)) # "none"
                    /\ EndsWith(f.name, DOT_DOCSPEC_MD)
        hits == SelectSeq(ScanOrder, IsHit)
    IN  [i \in 1..Len(hits) |-> Join(repo_root, hits[i])]

\* the enumeration order shows: a directory holds two docspec entries
SomeDirHasTwoDocspecs ==
    \E p, q \in Universe :
        /\ p # q /\ p.dir = q.dir
        /\ Kind(p) # "none" /\ EndsWith(p.name, DOT_DOCSPEC_MD)
        /\ Kind(q) # "none" /\ EndsWith(q.name, DOT_DOCSPEC_MD)

\* read_text(path): the text of the file the path leads to
read_text(p) == <<"#">> \o resolve(p).dir \o resolve(p).name

-----------------------------------------------------------------------------
(* find_candidate_docspecs *)

\* candidates.append(x) for every x of xs that is not in candidates yet
RECURSIVE AppendNew(_, _)
AppendNew(cands, xs) ==
    IF xs = <<>> THEN cands
    ELSE AppendNew(IF xs[1] \in Range(cands) THEN cands ELSE Append(cands, xs[1]),
                   Tail(xs))

\* DirectPass without the test of p.exists()
RECURSIVE DirectPass_NoExistsTest(_, _)
DirectPass_NoExistsTest(root, changed_files) ==
    IF changed_files = <<>> THEN <<>>
    ELSE (IF RE_DOCSPEC(changed_files[1])
          THEN <<Join(root, changed_files[1])>> ELSE <<>>)
         \o DirectPass_NoExistsTest(root, Tail(changed_files))

\* 1) Directly changed docspecs
RECURSIVE DirectPass(_, _)
DirectPass(root, changed_files) ==
    IF changed_files = <<>> THEN <<>>
    ELSE LET f == changed_files[1]
             p == Join(root, f)
         IN  (IF RE_DOCSPEC(f) /\ exists(p) THEN <<p>> ELSE <<>>)
             \o DirectPass(root, Tail(changed_files))

\* WalkDirs with the loop stopped at the repository root, the root not scanned
RECURSIVE WalkDirs_StopAtRoot(_, _)
WalkDirs_StopAtRoot(root, current_dir) ==
    IF current_dir = root \/ current_dir = Parent(root) THEN <<>>
    ELSE <<current_dir>> \o WalkDirs_StopAtRoot(root, Parent(current_dir))

\* the directories the while loop scans, starting at current_dir
RECURSIVE WalkDirs(_, _)
WalkDirs(root, current_dir) ==
    IF current_dir = Parent(root) THEN <<>>
    ELSE <<current_dir>> \o WalkDirs(root, Parent(current_dir))

\* the while loop: scan each directory and append what is new
RECURSIVE WalkUp(_, _)
WalkUp(cands, dirs) ==
    IF dirs = <<>> THEN cands
    ELSE WalkUp(AppendNew(cands, Glob(dirs[1])), Tail(dirs))

\* WalkPass without the test of file_path.exists()
RECURSIVE WalkPass_NoExistsTest(_, _, _)
WalkPass_NoExistsTest(root, changed_files, cands) ==
    IF changed_files = <<>> THEN cands
    ELSE WalkPass_NoExistsTest(root, Tail(changed_files),
             WalkUp(cands, WalkDirs(root, Join(root, changed_files[1]).dir)))

\* 2) For each changed file, walk up directory tree
RECURSIVE WalkPass(_, _, _)
WalkPass(root, changed_files, cands) ==
    IF changed_files = <<>> THEN cands
    ELSE LET file_path == Join(root, changed_files[1]) IN
         IF ~exists(file_path)
         THEN WalkPass(root, Tail(changed_files), cands)
         ELSE WalkPass(root, Tail(changed_files),
                       WalkUp(cands, WalkDirs(root, file_path.dir)))

\* Dedupe with the de-duplication left out
Dedupe_KeepAll(cands, seen) == cands

\* De-dupe while preserving order
RECURSIVE Dedupe(_, _)
Dedupe(cands, seen) ==
    IF cands = <<>> THEN <<>>
    ELSE LET rp == resolve(cands[1]) IN
         IF rp \in seen THEN Dedupe(Tail(cands), seen)
         ELSE <<cands[1]>> \o Dedupe(Tail(cands), seen \cup {rp})

\* Candidates with the two passes in the other order
Candidates_WalkFirst(root, changed_files) ==
    WalkPass(root, changed_files, <<>>) \o DirectPass(root, changed_files)

\* the list `candidates` when the de-duplication starts
Candidates(root, changed_files) ==
    WalkPass(root, changed_files, DirectPass(root, changed_files))

\* find_candidate_docspecs with the final truncation left out
find_candidate_docspecs_NoLimit(root, changed_files) ==
    Dedupe(WalkPass(root, changed_files, DirectPass(root, changed_files)), {})

find_candidate_docspecs(root, changed_files) ==
    Prefix(Dedupe(Candidates(root, changed_files), {}), MAX_DOCSPECS)

-----------------------------------------------------------------------------
(* Output of git *)

WS == {" ", "\n"}

\* str.strip(): the text without its leading and trailing whitespace
RECURSIVE LStrip(_)
LStrip(s) == IF s # <<>> /\ s[1] \in WS THEN LStrip(Tail(s)) ELSE s

RECURSIVE RStrip(_)
RStrip(s) ==
    IF s # <<>> /\ s[Len(s)] \in WS THEN RStrip(SubSeq(s, 1, Len(s) - 1)) ELSE s

\* sh(cmd): the standard output of the command, stripped
sh(out) == RStrip(LStrip(out))

\* "\n\n[DIFF TRUNCATED]\n"
DIFF_TRUNCATED ==
    <<"\n", "\n", "[", "D", "I", "F", "F", " ", "T", "R", "U", "N", "C", "A",
      "T", "E", "D", "]", "\n">>

\* pr_diff_text cutting a diff that is exactly at the limit
pr_diff_text_CutAtLimit(out, max_chars) ==
    LET d == sh(out) IN
    IF Len(d) >= max_chars THEN SubSeq(d, 1, max_chars) \o DIFF_TRUNCATED ELSE d

\* pr_diff_text, given what `git diff base...merge` writes and the limit
pr_diff_text(out, max_chars) ==
    LET d == sh(out) IN
    IF Len(d) > max_chars THEN SubSeq(d, 1, max_chars) \o DIFF_TRUNCATED ELSE d

\* an empty line of output
Blank == [dir |-> <<>>, name |-> <<>>]

\* list_changed_files, given the lines `git diff --name-only` writes
list_changed_files(lines) == SelectSeq(lines, LAMBDA line : line # Blank)

-----------------------------------------------------------------------------
(* main of prepare-docspec-check-prompt.py *)

NoPath == [dir |-> <<>>, name |-> <<>>]

Part(k, p, t) == [kind |-> k, path |-> p, text |-> t]
Line(k) == Part(k, NoPath, <<>>)

\* the parts the prompt starts with
HeaderParts(d) ==
    << Line("Merged PR diff (context):"), Line("<diff>"), Part("diff", NoPath, d),
       Line("</diff>"), Line(""), Line("The following docspec files ..."),
       Line("") >>

\* SectionParts with the markdown block put before the docspec block
SectionParts_MarkdownFirst(docspec_path, target_md) ==
    << Part("## Docspec:", RelativeTo(docspec_path, repo_root), <<>>),
       Part("Target markdown:", RelativeTo(target_md, repo_root), <<>>),
       Line(""),
       Line("<markdown>"), Part("text", NoPath, read_text(target_md)),
       Line("</markdown>"), Line(""),
       Line("<docspec>"), Part("text", NoPath, read_text(docspec_path)),
       Line("</docspec>"), Line("") >>

\* the parts added for one docspec and its target markdown
SectionParts(docspec_path, target_md) ==
    << Part("## Docspec:", RelativeTo(docspec_path, repo_root), <<>>),
       Part("Target markdown:", RelativeTo(target_md, repo_root), <<>>),
       Line(""),
       Line("<docspec>"), Part("text", NoPath, read_text(docspec_path)),
       Line("</docspec>"), Line(""),
       Line("<markdown>"), Part("text", NoPath, read_text(target_md)),
       Line("</markdown>"), Line("") >>

\* the parts the prompt ends with
TaskParts == << Line("Task:"), Line("1. Explore ..."), Line("2. Understand ..."),
                Line("3. For each markdown file ..."), Line("4. Only update ..."),
                Line("5. Use the Edit tool ..."), Line("6. Do not provide ...") >>

\* `not target_md or not target_md.exists()`
NoTarget(target_md) == target_md = None \/ ~exists(target_md[1])

\* the lines of `git diff --name-only` output
ChangedInputs == SeqsUpTo(Range(Tree) \cup {Blank}, MaxChanged)

\* what `git diff` writes: nothing, a short diff, a diff over the limit
DiffInputs == { <<>>, <<"+", "\n">>, <<"+", "-", "+", "\n">> }

Idle == [fn |-> "none", arg |-> <<>>, ret |-> <<>>]

Init ==
    /\ pc = "env"
    /\ env \in [{"BASE_SHA", "MERGE_SHA"} -> BOOLEAN]
    /\ MAX_DOCSPECS \in 1..MaxDocspecsEnv
    /\ MAX_DIFF_CHARS = 2
    /\ fs \in FsStates
    /\ scan_rev \in (IF SomeDirHasTwoDocspecs THEN BOOLEAN ELSE {FALSE})
    /\ changed = <<>>
    /\ diff = <<>>
    /\ candidates = <<>>
    /\ docspec_paths = <<>>
    /\ idx = 1
    /\ prompt_parts = <<>>
    /\ docspecs_added = 0
    /\ stdout = <<>>
    /\ exit_code = -1
    /\ prompt_file = "absent"
    /\ call = Idle
    /\ raised = None
    /\ invoked = <<>>
    /\ written = {}

\* an uncaught exception ends the process with status 1
Raise(what) ==
    /\ pc' = "raised"
    /\ exit_code' = 1
    /\ raised' = what
    /\ stdout' = stdout
    /\ UNCHANGED <<env, MAX_DOCSPECS, MAX_DIFF_CHARS, fs, scan_rev, changed,
                   diff, candidates, docspec_paths, idx, prompt_parts,
                   docspecs_added, prompt_file, call, written>>

\* an exception object: its class and what its message names
Exc(type, msg) == [type |-> type, msg |-> msg]

\* one run of an external command: what was run, for which item, how it ended
Ran(cmd, arg, outcome) == [cmd |-> cmd, arg |-> arg, outcome |-> outcome]

\* os.environ[name] for the names in order: the first that is not set
RECURSIVE FirstMissing(_)
FirstMissing(names) ==
    IF names = <<>> THEN None
    ELSE IF ~env[names[1]] THEN Some(names[1])
    ELSE FirstMissing(Tail(names))

\* the ways subprocess.check_output(["git", ...]) fails: git exits non-zero
\* (CalledProcessError) or there is no git executable (FileNotFoundError)
GitFailures == {"nonzero", "missing"}

GitError(how) ==
    IF how = "nonzero"
    THEN Exc("CalledProcessError", "Command git returned non-zero exit status")
    ELSE Exc("FileNotFoundError", "No such file or directory: git")

\* ReadEnv with the variables not looked up
ReadEnv_NoLookup ==
    /\ pc = "env"
    /\ pc' = "list"
    /\ UNCHANGED <<env, MAX_DOCSPECS, MAX_DIFF_CHARS, fs, scan_rev, changed,
                   diff, candidates, docspec_paths, idx, prompt_parts,
                   docspecs_added, stdout, exit_code, prompt_file, call,
                   raised, invoked, written>>

\* base_sha = os.environ["BASE_SHA"]; merge_sha = os.environ["MERGE_SHA"]
ReadEnv ==
    /\ pc = "env"
    /\ FirstMissing(<<"BASE_SHA", "MERGE_SHA">>) = None
    /\ pc' = "list"
    /\ UNCHANGED <<env, MAX_DOCSPECS, MAX_DIFF_CHARS, fs, scan_rev, changed,
                   diff, candidates, docspec_paths, idx, prompt_parts,
                   docspecs_added, stdout, exit_code, prompt_file, call,
                   raised, invoked, written>>

\* KeyError: a required variable is not set
ReadEnvFails ==
    /\ pc = "env"
    /\ FirstMissing(<<"BASE_SHA", "MERGE_SHA">>) # None
    /\ Raise(Exc("KeyError", FirstMissing(<<"BASE_SHA", "MERGE_SHA">>)[1]))
    /\ UNCHANGED invoked

\* changed = list_changed_files(base_sha, merge_sha)
ListChangedFiles ==
    /\ pc = "list"
    /\ \E lines \in ChangedInputs : changed' = list_changed_files(lines)
    /\ invoked' = Append(invoked, Ran("git diff --name-only", 0, "ok"))
    /\ pc' = "diff"
    /\ UNCHANGED <<env, MAX_DOCSPECS, MAX_DIFF_CHARS, fs, scan_rev, diff,
                   candidates, docspec_paths, idx, prompt_parts,
                   docspecs_added, stdout, exit_code, prompt_file, call,
                   raised, written>>

\* ListChangedFilesFails with the failure of git swallowed: no file changed
ListChangedFilesFails_Swallowed ==
    /\ pc = "list"
    /\ \E how \in GitFailures :
          invoked' = Append(invoked, Ran("git diff --name-only", 0, how))
    /\ changed' = <<>>
    /\ pc' = "diff"
    /\ UNCHANGED <<env, MAX_DOCSPECS, MAX_DIFF_CHARS, fs, scan_rev, diff,
                   candidates, docspec_paths, idx, prompt_parts,
                   docspecs_added, stdout, exit_code, prompt_file, call,
                   raised, written>>

\* subprocess.check_output raises: git failed or is missing
ListChangedFilesFails ==
    /\ pc = "list"
    /\ \E how \in GitFailures :
          /\ invoked' = Append(invoked, Ran("git diff --name-only", 0, how))
          /\ Raise(GitError(how))

\* diff = pr_diff_text(base_sha, merge_sha)
PrDiffText ==
    /\ pc = "diff"
    /\ \E out \in DiffInputs : diff' = pr_diff_text(out, MAX_DIFF_CHARS)
    /\ invoked' = Append(invoked, Ran("git diff", 0, "ok"))
    /\ pc' = "find"
    /\ UNCHANGED <<env, MAX_DOCSPECS, MAX_DIFF_CHARS, fs, scan_rev, changed,
                   candidates, docspec_paths, idx, prompt_parts,
                   docspecs_added, stdout, exit_code, prompt_file, call,
                   raised, written>>

PrDiffTextFails ==
    /\ pc = "diff"
    /\ \E how \in GitFailures :
          /\ invoked' = Append(invoked, Ran("git diff", 0, how))
          /\ Raise(GitError(how))

\* docspec_paths = find_candidate_docspecs(repo_root, changed)
FindCandidateDocspecs ==
    /\ pc = "find"
    /\ candidates' = Candidates(repo_root, changed)
    /\ docspec_paths' = find_candidate_docspecs(repo_root, changed)
    /\ pc' = "found"
    /\ UNCHANGED <<env, MAX_DOCSPECS, MAX_DIFF_CHARS, fs, scan_rev, changed,
                   diff, idx, prompt_parts, docspecs_added, stdout, exit_code,
                   prompt_file, call, raised, invoked, written>>

\* if not docspec_paths: print(...); sys.exit(0)
NoCandidatesExit ==
    /\ pc = "found"
    /\ docspec_paths = <<>>
    /\ stdout' = Append(stdout, Line("No relevant docspec files found."))
    /\ exit_code' = 0
    /\ pc' = "exited"
    /\ UNCHANGED <<env, MAX_DOCSPECS, MAX_DIFF_CHARS, fs, scan_rev, changed,
                   diff, candidates, docspec_paths, idx, prompt_parts,
                   docspecs_added, prompt_file, call, raised, invoked, written>>

\* BuildPrompt without the early exit on an empty candidate list
BuildPrompt_NoEarlyExit ==
    /\ pc = "found"
    /\ prompt_parts' = HeaderParts(diff)
    /\ docspecs_added' = 0
    /\ idx' = 1
    /\ pc' = "loop"
    /\ UNCHANGED <<env, MAX_DOCSPECS, MAX_DIFF_CHARS, fs, scan_rev, changed,
                   diff, candidates, docspec_paths, stdout, exit_code,
                   prompt_file, call, raised, invoked, written>>

\* prompt_parts = [...]; docspecs_added = 0
BuildPrompt ==
    /\ pc = "found"
    /\ docspec_paths # <<>>
    /\ prompt_parts' = HeaderParts(diff)
    /\ docspecs_added' = 0
    /\ idx' = 1
    /\ pc' = "loop"
    /\ UNCHANGED <<env, MAX_DOCSPECS, MAX_DIFF_CHARS, fs, scan_rev, changed,
                   diff, candidates, docspec_paths, stdout, exit_code,
                   prompt_file, call, raised, invoked, written>>

\* one iteration of `for docspec_path in docspec_paths`
ProcessPair ==
    /\ pc = "loop"
    /\ idx <= Len(docspec_paths)
    /\ LET docspec_path == docspec_paths[idx]
           target_md == target_markdown_for_docspec(docspec_path)
       IN  IF NoTarget(target_md)
           THEN \* continue
                /\ idx' = idx + 1
                /\ UNCHANGED <<pc, prompt_parts, docspecs_added, exit_code,
                               raised>>
           ELSE IF ~exists(docspec_path)
           THEN \* read_text(docspec_path) raises FileNotFoundError
                /\ pc' = "raised"
                /\ exit_code' = 1
                /\ raised' = Exc("FileNotFoundError", "No such file or directory")
                /\ UNCHANGED <<idx, prompt_parts, docspecs_added>>
           ELSE /\ prompt_parts' =
                       prompt_parts \o SectionParts(docspec_path, target_md[1])
                /\ docspecs_added' = docspecs_added + 1
                /\ idx' = idx + 1
                /\ UNCHANGED <<pc, exit_code, raised>>
    /\ UNCHANGED <<env, MAX_DOCSPECS, MAX_DIFF_CHARS, fs, scan_rev, changed,
                   diff, candidates, docspec_paths, stdout, prompt_file, call,
                   invoked, written>>

\* if docspecs_added == 0: print(...); sys.exit(0)
NoneAddedExit ==
    /\ pc = "loop"
    /\ idx > Len(docspec_paths)
    /\ docspecs_added = 0
    /\ stdout' = Append(stdout,
           Line("No relevant docspec files found with valid target markdown files."))
    /\ exit_code' = 0
    /\ pc' = "exited"
    /\ UNCHANGED <<env, MAX_DOCSPECS, MAX_DIFF_CHARS, fs, scan_rev, changed,
                   diff, candidates, docspec_paths, idx, prompt_parts,
                   docspecs_added, prompt_file, call, raised, invoked, written>>

\* EmitPrompt without the check that a section was added
EmitPrompt_NoneAddedToo ==
    /\ pc = "loop"
    /\ idx > Len(docspec_paths)
    /\ prompt_parts' = prompt_parts \o TaskParts
    /\ stdout' = stdout \o prompt_parts'
    /\ exit_code' = 0
    /\ pc' = "returned"
    /\ UNCHANGED <<env, MAX_DOCSPECS, MAX_DIFF_CHARS, fs, scan_rev, changed,
                   diff, candidates, docspec_paths, idx, docspecs_added,
                   prompt_file, call, raised, invoked, written>>

\* prompt_parts.extend([...]); print("\n".join(prompt_parts)); return
EmitPrompt ==
    /\ pc = "loop"
    /\ idx > Len(docspec_paths)
    /\ docspecs_added # 0
    /\ prompt_parts' = prompt_parts \o TaskParts
    /\ stdout' = stdout \o prompt_parts'
    /\ exit_code' = 0
    /\ pc' = "returned"
    /\ UNCHANGED <<env, MAX_DOCSPECS, MAX_DIFF_CHARS, fs, scan_rev, changed,
                   diff, candidates, docspec_paths, idx, docspecs_added,
                   prompt_file, call, raised, invoked, written>>

Next ==
    \/ ReadEnv
    \/ ReadEnvFails
    \/ ListChangedFiles
    \/ ListChangedFilesFails
    \/ PrDiffText
    \/ PrDiffTextFails
    \/ FindCandidateDocspecs
    \/ NoCandidatesExit
    \/ BuildPrompt
    \/ ProcessPair
    \/ NoneAddedExit
    \/ EmitPrompt

Spec == Init /\ [][Next]_vars

-----------------------------------------------------------------------------
(* substitute_template of prepare-docspec-generate-prompts.py:             *)
(* string.Template(template).safe_substitute of the keyword arguments.     *)
(* A template is a                                                         *)
(* sequence of characters; kwargs maps names (sequences of characters) to  *)
(* values.                                                                 *)

\* the characters of an identifier, [_a-z][_a-z0-9]* of string.Template
IsIdChar(c) ==
    c \in {"a", "b", "md_path", "md_text", "docspec_path", "docspec_text", "PLAN"}

\* the last index of the longest run of identifier characters starting at i
\* (i - 1 if there is none)
IdEnd(t, i) ==
    CHOOSE j \in (i - 1)..Len(t) :
        /\ \A k \in i..j : IsIdChar(t[k])
        /\ (j = Len(t) \/ ~IsIdChar(t[j + 1]))

\* the callback of safe_substitute: the value of a supplied name, the matched
\* text itself for a name that is not supplied
Convert(kwargs, name, matched) ==
    IF name \in DOMAIN kwargs THEN kwargs[name] ELSE matched

\* Template.pattern.sub over the template from index i on: at a "$" the
\* alternatives are tried in the order escaped, named, braced, invalid
RECURSIVE Substitute(_, _, _)
Substitute(t, i, kwargs) ==
    IF i > Len(t) THEN <<>>
    ELSE IF t[i] # "$" THEN <<t[i]>> \o Substitute(t, i + 1, kwargs)
    ELSE IF i < Len(t) /\ t[i + 1] = "$"
         THEN <<"$">> \o Substitute(t, i + 2, kwargs)
    ELSE IF i < Len(t) /\ IsIdChar(t[i + 1])
         THEN LET j == IdEnd(t, i + 1)
              IN  Convert(kwargs, SubSeq(t, i + 1, j), SubSeq(t, i, j))
                  \o Substitute(t, j + 1, kwargs)
    ELSE IF /\ i + 2 < Len(t) /\ t[i + 1] = "{" /\ IsIdChar(t[i + 2])
            /\ IdEnd(t, i + 2) < Len(t) /\ t[IdEnd(t, i + 2) + 1] = "}"
         THEN LET j == IdEnd(t, i + 2)
              IN  Convert(kwargs, SubSeq(t, i + 2, j), SubSeq(t, i, j + 1))
                  \o Substitute(t, j + 2, kwargs)
    ELSE <<"$">> \o Substitute(t, i + 1, kwargs)

\* substitute_template with the result substituted once more
substitute_template_Twice(template, kwargs) ==
    Substitute(Substitute(template, 1, kwargs), 1, kwargs)

\* return Template(template).safe_substitute(kwargs)
substitute_template(template, kwargs) == Substitute(template, 1, kwargs)

-----------------------------------------------------------------------------
(* main of prepare-docspec-generate-prompts.py *)

\* the variables that only prepare-docspec-check-prompt.py uses
checkPromptVars ==
    <<MAX_DOCSPECS, MAX_DIFF_CHARS, scan_rev, changed, diff, candidates,
      docspec_paths, idx, prompt_parts, docspecs_added, prompt_file, call>>

\* with_suffix that appends the suffix to the whole name
with_suffix_Append(p, suffix) == [dir |-> p.dir, name |-> p.name \o suffix]

\* Path.with_suffix(suffix): the last suffix of the name, if it has one,
\* is replaced (a leading dot or a trailing dot starts no suffix)
with_suffix(p, suffix) ==
    LET dots == {i \in 2..(Len(p.name) - 1) : p.name[i] = "."}
        stem == IF dots = {} THEN p.name
                ELSE SubSeq(p.name, 1,
                            (CHOOSE i \in dots : \A j \in dots : j <= i) - 1)
    IN  [dir |-> p.dir, name |-> stem \o suffix]

\* str(path.relative_to(repo_root))
PathStr(p) == RelativeTo(p, repo_root).dir \o RelativeTo(p, repo_root).name

\* a file written during the run, and the command that wrote it
Wrote(path, by) == [path |-> path, by |-> by]

\* what a file is written to: the file a symbolic link leads to
WriteFile(f, p) == (resolve(p) :> "file") @@ f

\* `not markdown_file`: MARKDOWN_FILE is not set or is the empty string
NoMarkdownFile == env.MARKDOWN_FILE = None \/ env.MARKDOWN_FILE = Some(NoPath)

\* md_path = repo_root / markdown_file
md_path == Join(repo_root, env.MARKDOWN_FILE[1])

\* docspec_path = md_path.with_suffix(".docspec.md")
generated_docspec_path == with_suffix(md_path, DOT_DOCSPEC_MD)

plan_template ==
    << "You are analyzing ...",
       "<markdown path=", "$", "{", "md_path", "}", ">",
       "$", "{", "md_text", "}", "</markdown>",
       "<docspec path=", "$", "{", "docspec_path", "}", ">",
       "$", "{", "docspec_text", "}", "</docspec>",
       "Task: Focus on INFORMATION DISCOVERY ..." >>

impl_template ==
    << "Based on this information discovery plan:",
       "<plan>", "{", "{", "PLAN", "}", "}", "</plan>",
       "1. ", "$", "{", "md_path", "}", " - the markdown file",
       "2. ", "$", "{", "docspec_path", "}", " - the docspec file",
       "CRITICAL CONSTRAINTS ...",
       "1. Read the existing ", "$", "{", "docspec_path", "}", " file FIRST",
       "Task:", "1. Read ", "$", "{", "docspec_path", "}",
       "2. Read ", "$", "{", "md_path", "}",
       "4. For ", "$", "{", "docspec_path", "}",
       "5. For ", "$", "{", "md_path", "}",
       "6. Make changes directly to the files" >>

\* the keyword arguments of both substitute_template calls
PromptKwargs ==
    (<<"md_path">> :> PathStr(md_path))
    @@ (<<"md_text">> :> read_text(md_path))
    @@ (<<"docspec_path">> :> PathStr(generated_docspec_path))
    @@ (<<"docspec_text">> :> read_text(generated_docspec_path))

\* the values of MARKDOWN_FILE: a markdown file, one in a directory, a file
\* that is no markdown, a docspec
MarkdownFileInputs == {F_README_MD, F_API_MD, F_X_TS, F_README_DS}

InitGen ==
    /\ pc = "g_env"
    /\ env \in [MARKDOWN_FILE : {None, Some(NoPath)} \cup {Some(f) : f \in MarkdownFileInputs},
                 OVERWRITE_DOCSPEC : {None, Some("true"), Some("false")}]
    /\ fs \in FsStates
    /\ MAX_DOCSPECS = 0
    /\ MAX_DIFF_CHARS = 0
    /\ scan_rev = FALSE
    /\ changed = <<>>
    /\ diff = <<>>
    /\ candidates = <<>>
    /\ docspec_paths = <<>>
    /\ idx = 1
    /\ prompt_parts = <<>>
    /\ docspecs_added = 0
    /\ stdout = <<>>
    /\ exit_code = -1
    /\ prompt_file = "absent"
    /\ call = Idle
    /\ raised = None
    /\ invoked = <<>>
    /\ written = {}

\* markdown_file = os.environ.get("MARKDOWN_FILE"), set and not empty
GetMarkdownFile ==
    /\ pc = "g_env"
    /\ ~NoMarkdownFile
    /\ pc' = "g_exists"
    /\ UNCHANGED <<env, fs, stdout, exit_code, raised, invoked, written>>
    /\ UNCHANGED checkPromptVars

\* if not markdown_file: raise RuntimeError(...)
GetMarkdownFileFails ==
    /\ pc = "g_env"
    /\ NoMarkdownFile
    /\ Raise(Exc("RuntimeError", "MARKDOWN_FILE environment variable is not set"))
    /\ UNCHANGED invoked

\* CheckMarkdownExists without the test that the markdown file exists
CheckMarkdownExists_NoTest ==
    /\ pc = "g_exists"
    /\ stdout' = Append(stdout,
                        Part("Generating docspec file:", generated_docspec_path, <<>>))
    /\ pc' = "g_generate"
    /\ UNCHANGED <<env, fs, exit_code, raised, invoked, written>>
    /\ UNCHANGED checkPromptVars

\* md_path.exists(); docspec_path = ...; print("Generating docspec file: ...")
CheckMarkdownExists ==
    /\ pc = "g_exists"
    /\ exists(md_path)
    /\ stdout' = Append(stdout,
                        Part("Generating docspec file:", generated_docspec_path, <<>>))
    /\ pc' = "g_generate"
    /\ UNCHANGED <<env, fs, exit_code, raised, invoked, written>>
    /\ UNCHANGED checkPromptVars

\* if not md_path.exists(): raise RuntimeError(...)
MarkdownNotFound ==
    /\ pc = "g_exists"
    /\ ~exists(md_path)
    /\ Raise(Exc("RuntimeError", "Markdown file not found"))
    /\ UNCHANGED invoked

\* subprocess.run(["docspec", "generate", ...], check=True) returns: the
\* command exited with status 0, having written the docspec file or not
GenerateDocspec ==
    /\ pc = "g_generate"
    /\ invoked' = Append(invoked, Ran("docspec generate", 0, "ok"))
    /\ \E wrote \in BOOLEAN :
          IF wrote
          THEN /\ fs' = WriteFile(fs, generated_docspec_path)
               /\ written' = written \cup {Wrote(generated_docspec_path, "docspec generate")}
          ELSE UNCHANGED <<fs, written>>
    /\ stdout' = Append(stdout,
                        Part("Generated docspec file:", generated_docspec_path, <<>>))
    /\ pc' = "g_read"
    /\ UNCHANGED <<env, exit_code, raised>>
    /\ UNCHANGED checkPromptVars

\* the ways subprocess.run(["docspec", "generate", ...], check=True) fails:
\* CalledProcessError or FileNotFoundError, both turned into RuntimeError
GenerateFailures == {"nonzero", "missing"}

GenerateError(how) ==
    IF how = "nonzero"
    THEN Exc("RuntimeError", "Failed to generate docspec")
    ELSE Exc("RuntimeError", "docspec CLI not found")

GenerateDocspecFails ==
    /\ pc = "g_generate"
    /\ \E how \in GenerateFailures :
          /\ invoked' = Append(invoked, Ran("docspec generate", 0, how))
          /\ Raise(GenerateError(how))

\* docspec_text = read_text(docspec_path) raises: there is no such file
ReadTextFails ==
    /\ pc = "g_read"
    /\ ~exists(generated_docspec_path)
    /\ Raise(Exc("FileNotFoundError", "No such file or directory"))
    /\ UNCHANGED invoked

\* the two prompts are substituted and printed between their markers
EmitPrompts ==
    /\ pc = "g_read"
    /\ exists(generated_docspec_path)
    /\ stdout' = stdout \o
          << Line("===PLAN_PROMPT_START==="),
             Part("prompt", NoPath, substitute_template(plan_template, PromptKwargs)),
             Line("===PLAN_PROMPT_END==="),
             Line("===IMPL_PROMPT_START==="),
             Part("prompt", NoPath, substitute_template(impl_template, PromptKwargs)),
             Line("===IMPL_PROMPT_END===") >>
    /\ exit_code' = 0
    /\ pc' = "returned"
    /\ UNCHANGED <<env, fs, raised, invoked, written>>
    /\ UNCHANGED checkPromptVars

NextGen ==
    \/ GetMarkdownFile
    \/ GetMarkdownFileFails
    \/ CheckMarkdownExists
    \/ MarkdownNotFound
    \/ GenerateDocspec
    \/ GenerateDocspecFails
    \/ ReadTextFails
    \/ EmitPrompts

SpecGen == InitGen /\ [][NextGen]_vars

-----------------------------------------------------------------------------
(* The action scripts: main of docspec_check.py and main of                *)
(* docspec_generate.py, with run_claude_cli of _shared/claude_utils.py.    *)

\* the variables the action scripts do not use
promptVars == <<prompt_parts, docspecs_added, prompt_file, call>>

\* an exception leaves the function after it has printed something
Abort(what, printed) ==
    /\ pc' = "raised"
    /\ exit_code' = 1
    /\ raised' = what
    /\ stdout' = stdout \o printed

\* how subprocess.run ends for a command with a timeout: exit status 0, a
\* non-zero exit status, FileNotFoundError, TimeoutExpired
ToolOutcomes == {"ok", "nonzero", "missing", "timeout"}

\* verify_claude_cli with a missing executable only warned about
verify_claude_cli_WarnOnly(arg, v) ==
    [ invoked |-> <<Ran("claude --version", arg, v)>>,
      raised  |-> None,
      printed |-> IF v = "ok" THEN <<>>
                  ELSE <<Line("Warning: Could not verify Claude CLI")>> ]

\* verify_claude_cli(): `claude --version` is run and ends as v says
verify_claude_cli(arg, v) ==
    [ invoked |-> <<Ran("claude --version", arg, v)>>,
      raised  |-> IF v = "missing"
                  THEN Exc("RuntimeError", "Claude CLI not found")
                  ELSE None,
      printed |-> IF v = "nonzero"
                  THEN <<Line("Warning: 'claude --version' failed")>>
                  ELSE IF v = "timeout"
                  THEN <<Line("Warning: Could not verify Claude CLI")>>
                  ELSE <<>> ]

\* check_api_key that accepts a missing or empty key
check_api_key_Accepting(e) == None

\* check_api_key(env)
check_api_key(e) ==
    IF ~e.ANTHROPIC_API_KEY
    THEN Exc("RuntimeError",
             "ANTHROPIC_API_KEY environment variable is not set or is empty")
    ELSE None

\* the RuntimeError run_claude_cli raises when the command ends as r says
ClaudeError(r) ==
    IF r = "timeout" THEN Exc("RuntimeError", "Claude CLI timed out")
    ELSE IF r = "missing" THEN Exc("RuntimeError", "Claude CLI not found")
    ELSE Exc("RuntimeError", "Claude CLI failed with return code")

\* run_claude_cli(...): the version check ends as v says and the command, if
\* it is run, as r says; what was run, what was raised, what was printed
run_claude_cli(arg, v, r) ==
    LET ver == verify_claude_cli(arg, v)
    IN  IF ver.raised # None THEN ver
        ELSE IF check_api_key(env) # None
        THEN [ver EXCEPT !.raised = check_api_key(env)]
        ELSE [ invoked |-> ver.invoked \o <<Ran("claude", arg, r)>>,
               raised  |-> IF r = "ok" THEN None ELSE ClaudeError(r),
               printed |-> ver.printed \o <<Line("Running Claude CLI ...")>> ]

\* the environments docspec_check.py is started in: all variables set, or
\* one of them not set
CheckEnvs ==
    {e \in [{"REPO", "PR_NUMBER", "BASE_SHA", "MERGE_SHA", "ANTHROPIC_API_KEY"}
              -> BOOLEAN] :
        Cardinality({n \in DOMAIN e : ~e[n]}) <= 1}

\* the environments docspec_generate.py is started in
GenerateEnvs ==
    [MARKDOWN_FILE : {None, Some(NoPath)} \cup {Some(f) : f \in MarkdownFileInputs},
     ANTHROPIC_API_KEY : BOOLEAN]

\* the lines of `git diff --name-only` output given to docspec_check.py
CheckChangedInputs == SeqsUpTo({F_README_DS, F_API_DS, F_X_TS}, MaxChanged)

\* what `git diff` writes, given to docspec_check.py
CheckDiffInputs == { <<"+", "\n">>, <<"+", "-", "+", "\n">> }

InitAct ==
    /\ \/ /\ pc = "k_env"
          /\ env \in CheckEnvs
          /\ MAX_DOCSPECS \in 1..MaxDocspecsEnv
          /\ MAX_DIFF_CHARS = 2
       \/ /\ pc = "d_env"
          /\ env \in GenerateEnvs
          /\ MAX_DOCSPECS = 0
          /\ MAX_DIFF_CHARS = 0
    /\ fs \in FsStates
    /\ scan_rev = FALSE
    /\ changed = <<>>
    /\ diff = <<>>
    /\ candidates = <<>>
    /\ docspec_paths = <<>>
    /\ idx = 1
    /\ prompt_parts = <<>>
    /\ docspecs_added = 0
    /\ stdout = <<>>
    /\ exit_code = -1
    /\ prompt_file = "absent"
    /\ call = Idle
    /\ raised = None
    /\ invoked = <<>>
    /\ written = {}

CHECK_ENV == <<"REPO", "PR_NUMBER", "BASE_SHA", "MERGE_SHA">>

\* repo = os.environ["REPO"]; ...; merge_sha = os.environ["MERGE_SHA"]
ChkReadEnv ==
    /\ pc = "k_env"
    /\ FirstMissing(CHECK_ENV) = None
    /\ pc' = "k_list"
    /\ UNCHANGED <<env, MAX_DOCSPECS, MAX_DIFF_CHARS, fs, scan_rev, changed,
                   diff, candidates, docspec_paths, idx, stdout, exit_code,
                   raised, invoked, written>>
    /\ UNCHANGED promptVars

ChkReadEnvFails ==
    /\ pc = "k_env"
    /\ FirstMissing(CHECK_ENV) # None
    /\ Raise(Exc("KeyError", FirstMissing(CHECK_ENV)[1]))
    /\ UNCHANGED invoked

\* changed = list_changed_files(base_sha, merge_sha)
ChkListChangedFiles ==
    /\ pc = "k_list"
    /\ \E lines \in CheckChangedInputs : changed' = list_changed_files(lines)
    /\ invoked' = Append(invoked, Ran("git diff --name-only", 0, "ok"))
    /\ pc' = "k_diff"
    /\ UNCHANGED <<env, MAX_DOCSPECS, MAX_DIFF_CHARS, fs, scan_rev, diff,
                   candidates, docspec_paths, idx, stdout, exit_code, raised,
                   written>>
    /\ UNCHANGED promptVars

ChkListChangedFilesFails ==
    /\ pc = "k_list"
    /\ \E how \in GitFailures :
          /\ invoked' = Append(invoked, Ran("git diff --name-only", 0, how))
          /\ Raise(GitError(how))

\* subprocess.check_output(cmd, text=True) is given no timeout: a git that
\* does not exit keeps list_changed_files waiting
ChkListChangedFilesHangs ==
    /\ pc = "k_list"
    /\ invoked' = Append(invoked, Ran("git diff --name-only", 0, "hang"))
    /\ pc' = "blocked"
    /\ UNCHANGED <<env, MAX_DOCSPECS, MAX_DIFF_CHARS, fs, scan_rev, changed,
                   diff, candidates, docspec_paths, idx, stdout, exit_code,
                   raised, written>>
    /\ UNCHANGED promptVars

\* diff = pr_diff_text(base_sha, merge_sha)
ChkPrDiffText ==
    /\ pc = "k_diff"
    /\ \E out \in CheckDiffInputs : diff' = pr_diff_text(out, MAX_DIFF_CHARS)
    /\ invoked' = Append(invoked, Ran("git diff", 0, "ok"))
    /\ pc' = "k_find"
    /\ UNCHANGED <<env, MAX_DOCSPECS, MAX_DIFF_CHARS, fs, scan_rev, changed,
                   candidates, docspec_paths, idx, stdout, exit_code, raised,
                   written>>
    /\ UNCHANGED promptVars

ChkPrDiffTextFails ==
    /\ pc = "k_diff"
    /\ \E how \in GitFailures :
          /\ invoked' = Append(invoked, Ran("git diff", 0, how))
          /\ Raise(GitError(how))

\* a git that does not exit keeps pr_diff_text waiting
ChkPrDiffTextHangs ==
    /\ pc = "k_diff"
    /\ invoked' = Append(invoked, Ran("git diff", 0, "hang"))
    /\ pc' = "blocked"
    /\ UNCHANGED <<env, MAX_DOCSPECS, MAX_DIFF_CHARS, fs, scan_rev, changed,
                   diff, candidates, docspec_paths, idx, stdout, exit_code,
                   raised, written>>
    /\ UNCHANGED promptVars

\* docspec_paths = find_candidate_docspecs(repo_root, changed);
\* if not docspec_paths: print(...); return
ChkFindCandidateDocspecs ==
    /\ pc = "k_find"
    /\ candidates' = Candidates(repo_root, changed)
    /\ docspec_paths' = find_candidate_docspecs(repo_root, changed)
    /\ IF docspec_paths' = <<>>
       THEN /\ stdout' = Append(stdout, Line("No relevant docspec files found."))
            /\ exit_code' = 0
            /\ pc' = "returned"
       ELSE /\ stdout' = Append(stdout, Line("Found docspec file(s) to process."))
            /\ exit_code' = exit_code
            /\ pc' = "k_loop"
    /\ idx' = 1
    /\ UNCHANGED <<env, MAX_DOCSPECS, MAX_DIFF_CHARS, fs, scan_rev, changed,
                   diff, raised, invoked, written>>
    /\ UNCHANGED promptVars

\* ChkSkipPair with `break` for `continue`: the loop is left
ChkSkipPair_Break ==
    /\ pc = "k_loop"
    /\ idx <= Len(docspec_paths)
    /\ NoTarget(target_markdown_for_docspec(docspec_paths[idx]))
    /\ stdout' = Append(stdout, Part("Skipping docspec without valid target:",
                                     docspec_paths[idx], <<>>))
    /\ idx' = Len(docspec_paths) + 1
    /\ UNCHANGED <<pc, env, MAX_DOCSPECS, MAX_DIFF_CHARS, fs, scan_rev, changed,
                   diff, candidates, docspec_paths, exit_code, raised, invoked,
                   written>>
    /\ UNCHANGED promptVars

\* if not target_md or not target_md.exists(): print(...); continue
ChkSkipPair ==
    /\ pc = "k_loop"
    /\ idx <= Len(docspec_paths)
    /\ NoTarget(target_markdown_for_docspec(docspec_paths[idx]))
    /\ stdout' = Append(stdout, Part("Skipping docspec without valid target:",
                                     docspec_paths[idx], <<>>))
    /\ idx' = idx + 1
    /\ UNCHANGED <<pc, env, MAX_DOCSPECS, MAX_DIFF_CHARS, fs, scan_rev, changed,
                   diff, candidates, docspec_paths, exit_code, raised, invoked,
                   written>>
    /\ UNCHANGED promptVars

\* what the Claude CLI does to the target markdown while it runs
ClaudeEffects == {"none", "edit", "delete"}

\* the file system and the written files after the Claude CLI ran on target
AfterClaude(effect, target) ==
    [ fs      |-> IF effect = "delete" THEN (resolve(target) :> "none") @@ fs
                  ELSE fs,
      written |-> IF effect = "edit"
                  THEN written \cup {Wrote(target, "claude")}
                  ELSE written ]

\* docspec = read_text(docspec_path); md_text = read_text(target_md);
\* call_claude_cli_for_patch(...)
ChkCallClaude ==
    /\ pc = "k_loop"
    /\ idx <= Len(docspec_paths)
    /\ ~NoTarget(target_markdown_for_docspec(docspec_paths[idx]))
    /\ LET target == target_markdown_for_docspec(docspec_paths[idx])[1]
           processing == <<Part("Processing", docspec_paths[idx], <<>>)>>
       IN  IF ~exists(docspec_paths[idx])
           THEN \* read_text(docspec_path) raises FileNotFoundError
                /\ Abort(Exc("FileNotFoundError", "No such file or directory"),
                         processing)
                /\ UNCHANGED <<fs, written, invoked>>
           ELSE \E v \in ToolOutcomes, r \in ToolOutcomes, effect \in ClaudeEffects :
                  LET res == run_claude_cli(idx, v, r)
                  IN  /\ invoked' = invoked \o res.invoked
                      /\ IF res.raised # None
                         THEN /\ Abort(res.raised, processing \o res.printed)
                              /\ UNCHANGED <<fs, written>>
                         ELSE /\ fs' = AfterClaude(effect, target).fs
                              /\ written' = AfterClaude(effect, target).written
                              /\ stdout' = stdout \o processing \o res.printed
                                   \o <<Line("Claude has updated the file directly")>>
                              /\ pc' = "k_called"
                              /\ UNCHANGED <<exit_code, raised>>
    /\ UNCHANGED <<env, MAX_DOCSPECS, MAX_DIFF_CHARS, scan_rev, changed, diff,
                   candidates, docspec_paths, idx>>
    /\ UNCHANGED promptVars

\* ChkAfterClaude without the test of target_md.exists()
ChkAfterClaude_NoExistsTest ==
    /\ pc = "k_called"
    /\ stdout' = Append(stdout, Part("No change needed for",
                   target_markdown_for_docspec(docspec_paths[idx])[1], <<>>))
    /\ idx' = idx + 1
    /\ pc' = "k_loop"
    /\ UNCHANGED <<env, MAX_DOCSPECS, MAX_DIFF_CHARS, fs, scan_rev, changed,
                   diff, candidates, docspec_paths, invoked, written,
                   exit_code, raised>>
    /\ UNCHANGED promptVars

\* if not target_md.exists(): raise RuntimeError(...); the new text is
\* compared with the original; the loop goes on
ChkAfterClaude ==
    /\ pc = "k_called"
    /\ LET target == target_markdown_for_docspec(docspec_paths[idx])[1]
       IN  IF ~exists(target)
           THEN /\ Abort(Exc("RuntimeError", "Markdown file was deleted"), <<>>)
                /\ UNCHANGED idx
           ELSE /\ stdout' = Append(stdout,
                       IF Wrote(target, "claude") \in written
                       THEN Part("Updated", target, <<>>)
                       ELSE Part("No change needed for", target, <<>>))
                /\ idx' = idx + 1
                /\ pc' = "k_loop"
                /\ UNCHANGED <<exit_code, raised>>
    /\ UNCHANGED <<env, MAX_DOCSPECS, MAX_DIFF_CHARS, fs, scan_rev, changed,
                   diff, candidates, docspec_paths, invoked, written>>
    /\ UNCHANGED promptVars

\* print("Done.")
ChkDone ==
    /\ pc = "k_loop"
    /\ idx > Len(docspec_paths)
    /\ stdout' = Append(stdout, Line("Done."))
    /\ exit_code' = 0
    /\ pc' = "returned"
    /\ UNCHANGED <<env, MAX_DOCSPECS, MAX_DIFF_CHARS, fs, scan_rev, changed,
                   diff, candidates, docspec_paths, idx, raised, invoked,
                   written>>
    /\ UNCHANGED promptVars

\* the variables main of docspec_generate.py does not use
checkVars ==
    <<MAX_DOCSPECS, MAX_DIFF_CHARS, scan_rev, changed, diff, candidates,
      docspec_paths, idx>>

\* markdown_file = os.environ.get("MARKDOWN_FILE"), set and not empty
DgGetMarkdownFile ==
    /\ pc = "d_env"
    /\ ~NoMarkdownFile
    /\ pc' = "d_exists"
    /\ UNCHANGED <<env, fs, stdout, exit_code, raised, invoked, written>>
    /\ UNCHANGED checkVars /\ UNCHANGED promptVars

DgGetMarkdownFileFails ==
    /\ pc = "d_env"
    /\ NoMarkdownFile
    /\ Raise(Exc("RuntimeError", "MARKDOWN_FILE environment variable is not set"))
    /\ UNCHANGED invoked

\* md_path.exists(); docspec_path = md_path.with_suffix(".docspec.md")
DgCheckMarkdownExists ==
    /\ pc = "d_exists"
    /\ exists(md_path)
    /\ stdout' = stdout \o
          << Part("Processing markdown file:", md_path, <<>>),
             Part("Docspec file:", generated_docspec_path, <<>>),
             Part("Generating docspec file:", generated_docspec_path, <<>>) >>
    /\ pc' = "d_generate"
    /\ UNCHANGED <<env, fs, exit_code, raised, invoked, written>>
    /\ UNCHANGED checkVars /\ UNCHANGED promptVars

DgMarkdownNotFound ==
    /\ pc = "d_exists"
    /\ ~exists(md_path)
    /\ Raise(Exc("RuntimeError", "Markdown file not found"))
    /\ UNCHANGED invoked

\* subprocess.run(generate_cmd, check=True, ...) returns
DgGenerateDocspec ==
    /\ pc = "d_generate"
    /\ invoked' = Append(invoked, Ran("docspec generate", 0, "ok"))
    /\ \E wrote \in BOOLEAN :
          IF wrote
          THEN /\ fs' = WriteFile(fs, generated_docspec_path)
               /\ written' = written \cup {Wrote(generated_docspec_path, "docspec generate")}
          ELSE UNCHANGED <<fs, written>>
    /\ stdout' = Append(stdout,
                        Part("Generated docspec file:", generated_docspec_path, <<>>))
    /\ pc' = "d_read"
    /\ UNCHANGED <<env, exit_code, raised>>
    /\ UNCHANGED checkVars /\ UNCHANGED promptVars

\* subprocess.run(generate_cmd, check=True, ...) raises
DgGenerateDocspecFails ==
    /\ pc = "d_generate"
    /\ \E how \in GenerateFailures :
          /\ invoked' = Append(invoked, Ran("docspec generate", 0, how))
          /\ Raise(GenerateError(how))

\* subprocess.run(generate_cmd, check=True, ...) is given no timeout: a
\* docspec CLI that does not exit keeps main waiting
DgGenerateDocspecHangs ==
    /\ pc = "d_generate"
    /\ invoked' = Append(invoked, Ran("docspec generate", 0, "hang"))
    /\ pc' = "blocked"
    /\ UNCHANGED <<env, fs, stdout, exit_code, raised, written>>
    /\ UNCHANGED checkVars /\ UNCHANGED promptVars

\* md_text = read_text(md_path); docspec_text = read_text(docspec_path)
DgReadTexts ==
    /\ pc = "d_read"
    /\ IF exists(generated_docspec_path)
       THEN /\ pc' = "d_plan"
            /\ UNCHANGED <<exit_code, raised>>
       ELSE /\ pc' = "raised"
            /\ exit_code' = 1
            /\ raised' = Exc("FileNotFoundError", "No such file or directory")
    /\ UNCHANGED <<env, fs, stdout, invoked, written>>
    /\ UNCHANGED checkVars /\ UNCHANGED promptVars

\* what the Claude CLI writes to its standard output in the plan phase
PlanOutputs == { <<>>, <<" ", "\n">>, <<"PLAN", "\n">> }

\* NoPlan that takes every output for a plan
NoPlan_Never(plan) == FALSE

\* if not plan
NoPlan(plan) == plan = <<>>

\* plan = call_claude_cli_for_plan(...), with plan = result.stdout.strip();
\* the plan preview is printed
DgPlan ==
    /\ pc = "d_plan"
    /\ \E v \in ToolOutcomes, r \in ToolOutcomes, out \in PlanOutputs :
          LET res == run_claude_cli(1, v, r)
              plan == RStrip(LStrip(out))
              discovering == <<Line("Discovering information gaps with Claude...")>>
          IN  /\ invoked' = invoked \o res.invoked
              /\ IF res.raised # None
                 THEN Abort(res.raised, discovering \o res.printed)
                 ELSE IF NoPlan(plan)
                 THEN Abort(Exc("RuntimeError",
                                "Claude plan mode returned empty output"),
                            discovering \o res.printed)
                 ELSE /\ stdout' = stdout \o discovering \o res.printed
                           \o <<Line("Plan generated"),
                                Part("Plan preview", NoPath, plan)>>
                      /\ pc' = "d_impl"
                      /\ UNCHANGED <<exit_code, raised>>
    /\ UNCHANGED <<env, fs, written>>
    /\ UNCHANGED checkVars /\ UNCHANGED promptVars

\* what the Claude CLI does to the two files while it implements the plan
ImplementationEffects == {"none", "edit", "delete_md", "delete_docspec"}

\* call_claude_cli_for_implementation(...)
DgImplementation ==
    /\ pc = "d_impl"
    /\ \E v \in ToolOutcomes, r \in ToolOutcomes, effect \in ImplementationEffects :
          LET res == run_claude_cli(2, v, r)
              updating == <<Line("Updating files based on information discovery...")>>
          IN  /\ invoked' = invoked \o res.invoked
              /\ IF res.raised # None
                 THEN /\ Abort(res.raised, updating \o res.printed)
                      /\ UNCHANGED <<fs, written>>
                 ELSE /\ fs' = IF effect = "delete_md"
                               THEN (resolve(md_path) :> "none") @@ fs
                               ELSE IF effect = "delete_docspec"
                               THEN (resolve(generated_docspec_path) :> "none") @@ fs
                               ELSE fs
                      /\ written' = IF effect = "edit"
                                    THEN written \cup
                                           {Wrote(md_path, "claude"),
                                            Wrote(generated_docspec_path, "claude")}
                                    ELSE written
                      /\ stdout' = stdout \o updating \o res.printed
                           \o <<Line("Claude has updated the files directly")>>
                      /\ pc' = "d_verify"
                      /\ UNCHANGED <<exit_code, raised>>
    /\ UNCHANGED env
    /\ UNCHANGED checkVars /\ UNCHANGED promptVars

\* if not md_path.exists(): raise ...; if not docspec_path.exists(): raise ...
DgVerify ==
    /\ pc = "d_verify"
    /\ IF ~exists(md_path)
       THEN Abort(Exc("RuntimeError", "Markdown file was deleted"),
                  <<Line("Verifying changes ...")>>)
       ELSE IF ~exists(generated_docspec_path)
       THEN Abort(Exc("RuntimeError", "Docspec file was deleted"),
                  <<Line("Verifying changes ...")>>)
       ELSE /\ stdout' = stdout \o
                 << Line("Verifying changes ..."),
                    IF Wrote(md_path, "claude") \in written
                    THEN Part("has been updated", md_path, <<>>)
                    ELSE Part("Warning: appears unchanged", md_path, <<>>),
                    IF Wrote(generated_docspec_path, "claude") \in written
                    THEN Part("has been updated", generated_docspec_path, <<>>)
                    ELSE Part("Warning: appears unchanged",
                              generated_docspec_path, <<>>) >>
            /\ pc' = "d_validate"
            /\ UNCHANGED <<exit_code, raised>>
    /\ UNCHANGED <<env, fs, invoked, written>>
    /\ UNCHANGED checkVars /\ UNCHANGED promptVars

\* validate_docspec(docspec_path): what is raised when the command ends as o
\* says (a missing executable is only warned about)
ValidateError(o) ==
    IF o = "nonzero" THEN Exc("RuntimeError", "Docspec validation failed")
    ELSE IF o = "timeout" THEN Exc("RuntimeError", "Docspec validation timed out")
    ELSE None

\* validate_docspec(docspec_path); print("Done! ...")
DgValidateDocspec ==
    /\ pc = "d_validate"
    /\ \E o \in ToolOutcomes :
          /\ invoked' = Append(invoked, Ran("docspec validate", 0, o))
          /\ IF ValidateError(o) # None
             THEN Abort(ValidateError(o), <<Line("Validating updated docspec...")>>)
             ELSE /\ stdout' = stdout \o
                       << Line("Validating updated docspec..."),
                          IF o = "missing"
                          THEN Line("Warning: docspec CLI not found, skipping validation")
                          ELSE Line("Docspec validation passed"),
                          Line("Done! Files have been updated with discovered information.") >>
                  /\ exit_code' = 0
                  /\ pc' = "returned"
                  /\ UNCHANGED raised
    /\ UNCHANGED <<env, fs, written>>
    /\ UNCHANGED checkVars /\ UNCHANGED promptVars

NextAct ==
    \/ ChkReadEnv
    \/ ChkReadEnvFails
    \/ ChkListChangedFiles
    \/ ChkListChangedFilesFails
    \/ ChkListChangedFilesHangs
    \/ ChkPrDiffText
    \/ ChkPrDiffTextFails
    \/ ChkPrDiffTextHangs
    \/ ChkFindCandidateDocspecs
    \/ ChkSkipPair
    \/ ChkCallClaude
    \/ ChkAfterClaude
    \/ ChkDone
    \/ DgGetMarkdownFile
    \/ DgGetMarkdownFileFails
    \/ DgCheckMarkdownExists
    \/ DgMarkdownNotFound
    \/ DgGenerateDocspec
    \/ DgGenerateDocspecFails
    \/ DgGenerateDocspecHangs
    \/ DgReadTexts
    \/ DgPlan
    \/ DgImplementation
    \/ DgVerify
    \/ DgValidateDocspec

SpecAct == InitAct /\ [][NextAct]_vars

-----------------------------------------------------------------------------
(* find_candidate_docspecs called twice on the same file system, with the  *)
(* same changed files and the same MAX_DOCSPECS.  Path.glob yields the     *)
(* entries in the order of os.scandir, which is arbitrary: each call has   *)
(* its own enumeration order.                                              *)

\* the changed files given to both calls
TwiceChangedInputs == SeqsUpTo(Range(Tree), MaxChanged)

InitTwice ==
    /\ pc = "t_first"
    /\ changed \in TwiceChangedInputs
    /\ fs \in FsStates
    /\ scan_rev \in BOOLEAN
    /\ MAX_DOCSPECS \in 1..MaxDocspecsEnv
    /\ MAX_DIFF_CHARS = 0
    /\ env = [v \in {"BASE_SHA", "MERGE_SHA"} |-> TRUE]
    /\ diff = <<>>
    /\ candidates = <<>>
    /\ docspec_paths = <<>>
    /\ idx = 1
    /\ prompt_parts = <<>>
    /\ docspecs_added = 0
    /\ stdout = <<>>
    /\ exit_code = -1
    /\ prompt_file = "absent"
    /\ call = Idle
    /\ raised = None
    /\ invoked = <<>>
    /\ written = {}

\* the first call returns; the directories may enumerate their entries in
\* another order when they are scanned again
FirstCall ==
    /\ pc = "t_first"
    /\ call' = [fn  |-> "find_candidate_docspecs",
                arg |-> [changed_files |-> changed, scan_rev |-> scan_rev],
                ret |-> find_candidate_docspecs(repo_root, changed)]
    /\ scan_rev' \in BOOLEAN
    /\ pc' = "t_second"
    /\ UNCHANGED <<env, MAX_DOCSPECS, MAX_DIFF_CHARS, fs, changed, diff,
                   candidates, docspec_paths, idx, prompt_parts,
                   docspecs_added, stdout, exit_code, prompt_file, raised,
                   invoked, written>>

\* the second call returns
SecondCall ==
    /\ pc = "t_second"
    /\ candidates' = Candidates(repo_root, changed)
    /\ docspec_paths' = find_candidate_docspecs(repo_root, changed)
    /\ pc' = "t_done"
    /\ UNCHANGED <<env, MAX_DOCSPECS, MAX_DIFF_CHARS, fs, scan_rev, changed,
                   diff, idx, prompt_parts, docspecs_added, stdout, exit_code,
                   prompt_file, call, raised, invoked, written>>

NextTwice ==
    \/ FirstCall
    \/ SecondCall

SpecTwice == InitTwice /\ [][NextTwice]_vars

-----------------------------------------------------------------------------
(* Step 2 of find_candidate_docspecs, statement by statement: the loop     *)
(* over the changed files and the while loop that walks up from the        *)
(* directory of a changed file.  call.arg is current_dir, call.ret records *)
(* the directories scanned so far, each with the index of its changed file.*)

\* the changed files given to the walk
WalkChangedInputs == SeqsUpTo({F_README_MD, F_API_MD, F_X_TS}, MaxChanged)

InitWalk ==
    /\ pc = "w_for"
    /\ changed \in WalkChangedInputs
    /\ fs \in FsStates
    /\ scan_rev = FALSE
    /\ MAX_DOCSPECS = 1
    /\ MAX_DIFF_CHARS = 0
    /\ env = [v \in {"BASE_SHA", "MERGE_SHA"} |-> TRUE]
    /\ diff = <<>>
    /\ candidates = DirectPass(repo_root, changed)
    /\ docspec_paths = <<>>
    /\ idx = 1
    /\ prompt_parts = <<>>
    /\ docspecs_added = 0
    /\ stdout = <<>>
    /\ exit_code = -1
    /\ prompt_file = "absent"
    /\ call = [fn |-> "walk", arg |-> <<>>, ret |-> <<>>]
    /\ raised = None
    /\ invoked = <<>>
    /\ written = {}

\* the variables the walk leaves alone
walkVars ==
    <<env, MAX_DOCSPECS, MAX_DIFF_CHARS, fs, scan_rev, changed, diff,
      docspec_paths, prompt_parts, docspecs_added, stdout, exit_code,
      prompt_file, raised, invoked, written>>

\* while current_dir != repo_root.parent, with the loop going on above the
\* repository root
WalkContinues_AboveRoot(current_dir) == current_dir # Parent(Parent(repo_root))

\* while current_dir != repo_root.parent
WalkContinues(current_dir) == current_dir # Parent(repo_root)

\* if not file_path.exists(): continue
WalkSkipMissing ==
    /\ pc = "w_for"
    /\ idx <= Len(changed)
    /\ ~exists(Join(repo_root, changed[idx]))
    /\ idx' = idx + 1
    /\ UNCHANGED <<pc, candidates, call>>
    /\ UNCHANGED walkVars

\* current_dir = file_path.parent
WalkEnter ==
    /\ pc = "w_for"
    /\ idx <= Len(changed)
    /\ exists(Join(repo_root, changed[idx]))
    /\ call' = [call EXCEPT !.arg = Join(repo_root, changed[idx]).dir]
    /\ pc' = "w_while"
    /\ UNCHANGED <<idx, candidates>>
    /\ UNCHANGED walkVars

\* the body of the while loop: the directory is scanned, then
\* current_dir = current_dir.parent
WalkScan ==
    /\ pc = "w_while"
    /\ WalkContinues(call.arg)
    /\ candidates' = AppendNew(candidates, Glob(call.arg))
    /\ call' = [call EXCEPT !.arg = Parent(call.arg),
                            !.ret = Append(@, [file |-> idx, dir |-> call.arg])]
    /\ UNCHANGED <<pc, idx>>
    /\ UNCHANGED walkVars

\* the while loop ends; the for loop goes to the next changed file
WalkLeave ==
    /\ pc = "w_while"
    /\ ~WalkContinues(call.arg)
    /\ idx' = idx + 1
    /\ pc' = "w_for"
    /\ UNCHANGED <<candidates, call>>
    /\ UNCHANGED walkVars

\* the for loop ends
WalkDone ==
    /\ pc = "w_for"
    /\ idx > Len(changed)
    /\ pc' = "w_done"
    /\ UNCHANGED <<idx, candidates, call>>
    /\ UNCHANGED walkVars

NextWalk ==
    \/ WalkSkipMissing
    \/ WalkEnter
    \/ WalkScan
    \/ WalkLeave
    \/ WalkDone

\* the interpreter keeps executing the statements of the function
SpecWalk == InitWalk /\ [][NextWalk]_vars /\ WF_vars(NextWalk)

-----------------------------------------------------------------------------
(* The loop of main of docspec_update.py, of the actions docspec-claude    *)
(* and docspec-sync: Claude returns a patch that is given to git apply.    *)
(* call.fn is the action the script belongs to; call.arg holds the pair    *)
(* the loop is at and the local variable patch.                            *)

UpdateScripts == {"docspec-claude", "docspec-sync"}

\* the patches call_claude_for_patch and call_claude_cli_for_patch return:
\* stripped text made of the two markers of a unified diff, line ends, and
\* mentions of the target markdown: "ABS" its absolute path, "REL" its path
\* relative to the repository root where the root does not precede it,
\* "NAME" its file name where its directory does not precede it
PatchOutputs ==
    {t \in SeqsUpTo({"diff --git", "--- ", "\n", "ABS", "REL", "NAME"}, MaxPatchLen) :
        RStrip(LStrip(t)) = t}

\* the check of main that the patch mentions the target: str(target_md) in
\* patch (docspec-claude); target_relative in patch or target_filename in
\* patch or ... (docspec-sync).  The absolute path contains the relative
\* path, and the relative path contains the file name.
path_found(script, patch) ==
    IF script = "docspec-claude"
    THEN "ABS" \in Range(patch)
    ELSE Range(patch) \cap {"ABS", "REL", "NAME"} # {}

\* apply_patch without the test for the markers of a unified diff
apply_patch_NoMarkerTest(patch, outcome) ==
    IF RStrip(LStrip(patch)) = <<>> THEN [ran |-> None, raised |-> None]
    ELSE [ran    |-> Some(outcome),
          raised |-> IF outcome = "nonzero"
                     THEN Exc("RuntimeError", "git apply failed.")
                     ELSE IF outcome = "missing"
                     THEN Exc("FileNotFoundError", "No such file or directory")
                     ELSE None]

\* apply_patch(patch), with git apply ending as outcome says: whether git
\* apply was run and how it ended, and what is raised
apply_patch(patch, outcome) ==
    IF RStrip(LStrip(patch)) = <<>> THEN [ran |-> None, raised |-> None]
    ELSE IF ~(patch[1] = "diff --git" \/ patch[1] = "--- ")
    THEN [ran    |-> None,
          raised |-> Exc("RuntimeError", "Claude output was not a unified diff.")]
    ELSE [ran    |-> Some(outcome),
          raised |-> IF outcome = "nonzero"
                     THEN Exc("RuntimeError", "git apply failed.")
                     ELSE IF outcome = "missing"
                     THEN Exc("FileNotFoundError", "No such file or directory")
                     ELSE None]

\* main has printed "Found ... docspec file(s) to process." and enters the
\* loop: both docspecs exist and were changed
InitUpd ==
    /\ pc = "u_loop"
    /\ call \in [fn : UpdateScripts, arg : {[pair |-> 0, patch |-> <<>>]}, ret : {<<>>}]
    /\ fs \in {f \in FsStates :
                 /\ f[Join(repo_root, F_README_DS)] = "file"
                 /\ f[Join(repo_root, F_API_DS)] = "file"
                 /\ f[Join(repo_root, F_L_DS)] = "none"
                 /\ f[Join(repo_root, F_X_TS)] = "file"}
    /\ scan_rev = FALSE
    /\ changed = <<F_README_DS, F_API_DS>>
    /\ MAX_DOCSPECS \in 1..MaxDocspecsEnv
    /\ MAX_DIFF_CHARS = 2
    /\ env = [v \in {"REPO", "PR_NUMBER", "BASE_SHA", "MERGE_SHA",
                      "ANTHROPIC_API_KEY"} |-> TRUE]
    /\ diff = <<"+">>
    /\ candidates = <<Join(repo_root, F_README_DS), Join(repo_root, F_API_DS)>>
    /\ docspec_paths = Prefix(candidates, MAX_DOCSPECS)
    /\ idx = 1
    /\ prompt_parts = <<>>
    /\ docspecs_added = 0
    /\ stdout = <<Line("Found docspec file(s) to process.")>>
    /\ exit_code = -1
    /\ prompt_file = "absent"
    /\ raised = None
    /\ invoked = <<>>
    /\ written = {}

\* the variables the loop leaves alone
updVars ==
    <<env, MAX_DOCSPECS, MAX_DIFF_CHARS, fs, scan_rev, changed, diff,
      candidates, docspec_paths, prompt_parts, docspecs_added, prompt_file,
      written>>

\* if not target_md or not target_md.exists(): print(...); continue
UpdSkipPair ==
    /\ pc = "u_loop"
    /\ idx <= Len(docspec_paths)
    /\ NoTarget(target_markdown_for_docspec(docspec_paths[idx]))
    /\ stdout' = Append(stdout, Part("Skipping docspec without valid target:",
                                     docspec_paths[idx], <<>>))
    /\ idx' = idx + 1
    /\ UNCHANGED <<pc, exit_code, raised, invoked, call>>
    /\ UNCHANGED updVars

\* one iteration for a pair with a target: Claude returns the patch, main
\* tests it and calls apply_patch
UpdProcessPair ==
    /\ pc = "u_loop"
    /\ idx <= Len(docspec_paths)
    /\ ~NoTarget(target_markdown_for_docspec(docspec_paths[idx]))
    /\ \E patch \in PatchOutputs, outcome \in {"ok", "nonzero", "missing"} :
          LET target == target_markdown_for_docspec(docspec_paths[idx])[1]
              processing == <<Part("Processing", docspec_paths[idx], <<>>)>>
              applied == apply_patch(patch, outcome)
          IN  /\ call' = [call EXCEPT !.arg = [pair |-> idx, patch |-> patch]]
              /\ IF patch = <<>>
                 THEN \* if not patch: print(...); continue
                      /\ stdout' = stdout \o processing \o
                             <<Part("No change needed for", target, <<>>)>>
                      /\ idx' = idx + 1
                      /\ UNCHANGED <<pc, exit_code, raised, invoked>>
                 ELSE IF ~path_found(call.fn, patch)
                 THEN /\ Abort(Exc("RuntimeError",
                                   "Patch did not reference expected path"),
                               processing)
                      /\ UNCHANGED <<idx, invoked>>
                 ELSE /\ invoked' = IF applied.ran = None THEN invoked
                                    ELSE Append(invoked,
                                                Ran("git apply", idx, applied.ran[1]))
                      /\ IF applied.raised # None
                         THEN /\ Abort(applied.raised, processing)
                              /\ UNCHANGED idx
                         ELSE /\ stdout' = stdout \o processing \o
                                     <<Part("Updated via patch.", target, <<>>)>>
                              /\ idx' = idx + 1
                              /\ UNCHANGED <<pc, exit_code, raised>>
    /\ UNCHANGED updVars

\* print("Done.")
UpdDone ==
    /\ pc = "u_loop"
    /\ idx > Len(docspec_paths)
    /\ stdout' = Append(stdout, Line("Done."))
    /\ exit_code' = 0
    /\ pc' = "returned"
    /\ UNCHANGED <<idx, raised, invoked, call>>
    /\ UNCHANGED updVars

NextUpd ==
    \/ UpdSkipPair
    \/ UpdProcessPair
    \/ UpdDone

SpecUpd == InitUpd /\ [][NextUpd]_vars

-----------------------------------------------------------------------------
(* Functions applied on their own: an argument is drawn, the function is   *)
(* applied, the result is kept in call.ret.                                *)

\* the paths given to target_markdown_for_docspec
TargetInputs ==
    {[dir |-> d, name |-> n] :
        d \in {<<>>, <<"a">>}, n \in SeqsUpTo({"x", ".", "docspec", "md"}, MaxNameLen)}

\* what `git diff` writes, given to pr_diff_text: nothing, or lines of which
\* the first starts with a visible character and the last ends in a newline
DiffOutputs ==
    {out \in SeqsUpTo({"+", " ", "\n"}, MaxDiffLen) :
        out # <<>> => (out[1] \notin WS /\ out[Len(out)] = "\n")}

\* the templates given to substitute_template
TemplateInputs == SeqsUpTo({"$", "{", "}", "a", "b"}, MaxTemplateLen)

\* the values substituted: plain text, text that looks like a placeholder,
\* text that looks like an escape
ValueInputs == { <<"x">>, <<"$", "{", "a", "}", "x">>, <<"$", "$">> }

\* substitute_template(template, a=v)
SingleKwarg(v) == [n \in {<<"a">>} |-> v]

\* the markdown paths the generate scripts derive the docspec path from:
\* the paths with a name ending in ".md"
MarkdownInputs == {a \in TargetInputs : EndsWith(a.name, DOT_MD)}

InitFn ==
    /\ pc = "call"
    /\ \/ /\ call \in {[fn |-> "target_markdown_for_docspec", arg |-> a, ret |-> <<>>] :
                          a \in TargetInputs}
          /\ MAX_DIFF_CHARS = 0
       \/ /\ call \in {[fn |-> "pr_diff_text", arg |-> a, ret |-> <<>>] :
                          a \in DiffOutputs}
          /\ MAX_DIFF_CHARS \in 1..MaxDiffCharsEnv
       \/ /\ call \in {[fn |-> "substitute_template",
                         arg |-> [template |-> t, kwargs |-> SingleKwarg(v)],
                         ret |-> <<>>] :
                          t \in TemplateInputs, v \in ValueInputs}
          /\ MAX_DIFF_CHARS = 0
       \/ /\ call \in {[fn |-> "with_suffix", arg |-> a, ret |-> <<>>] :
                          a \in MarkdownInputs}
          /\ MAX_DIFF_CHARS = 0
    /\ env = [v \in {"BASE_SHA", "MERGE_SHA"} |-> TRUE]
    /\ MAX_DOCSPECS = 0
    /\ fs = [p \in Universe |-> "none"]
    /\ scan_rev = FALSE
    /\ changed = <<>>
    /\ diff = <<>>
    /\ candidates = <<>>
    /\ docspec_paths = <<>>
    /\ idx = 1
    /\ prompt_parts = <<>>
    /\ docspecs_added = 0
    /\ stdout = <<>>
    /\ exit_code = -1
    /\ prompt_file = "absent"
    /\ raised = None
    /\ invoked = <<>>
    /\ written = {}

ApplyTargetMarkdownForDocspec ==
    /\ pc = "call"
    /\ call.fn = "target_markdown_for_docspec"
    /\ call' = [call EXCEPT !.ret = target_markdown_for_docspec(call.arg)]
    /\ pc' = "ret"
    /\ UNCHANGED <<env, MAX_DOCSPECS, MAX_DIFF_CHARS, fs, scan_rev, changed,
                   diff, candidates, docspec_paths, idx, prompt_parts,
                   docspecs_added, stdout, exit_code, prompt_file,
                   raised, invoked, written>>

ApplyPrDiffText ==
    /\ pc = "call"
    /\ call.fn = "pr_diff_text"
    /\ call' = [call EXCEPT !.ret = pr_diff_text(call.arg, MAX_DIFF_CHARS)]
    /\ pc' = "ret"
    /\ UNCHANGED <<env, MAX_DOCSPECS, MAX_DIFF_CHARS, fs, scan_rev, changed,
                   diff, candidates, docspec_paths, idx, prompt_parts,
                   docspecs_added, stdout, exit_code, prompt_file,
                   raised, invoked, written>>

ApplySubstituteTemplate ==
    /\ pc = "call"
    /\ call.fn = "substitute_template"
    /\ call' = [call EXCEPT
                  !.ret = substitute_template(call.arg.template, call.arg.kwargs)]
    /\ pc' = "ret"
    /\ UNCHANGED <<env, MAX_DOCSPECS, MAX_DIFF_CHARS, fs, scan_rev, changed,
                   diff, candidates, docspec_paths, idx, prompt_parts,
                   docspecs_added, stdout, exit_code, prompt_file,
                   raised, invoked, written>>

\* docspec_path = md_path.with_suffix(".docspec.md")
ApplyWithSuffix ==
    /\ pc = "call"
    /\ call.fn = "with_suffix"
    /\ call' = [call EXCEPT !.ret = with_suffix(call.arg, DOT_DOCSPEC_MD)]
    /\ pc' = "derived"
    /\ UNCHANGED <<env, MAX_DOCSPECS, MAX_DIFF_CHARS, fs, scan_rev, changed,
                   diff, candidates, docspec_paths, idx, prompt_parts,
                   docspecs_added, stdout, exit_code, prompt_file,
                   raised, invoked, written>>

\* target_markdown_for_docspec applied to the derived docspec path
ApplyTargetToDerived ==
    /\ pc = "derived"
    /\ call' = [call EXCEPT !.ret = [docspec |-> call.ret,
                                     md |-> target_markdown_for_docspec(call.ret)]]
    /\ pc' = "ret"
    /\ UNCHANGED <<env, MAX_DOCSPECS, MAX_DIFF_CHARS, fs, scan_rev, changed,
                   diff, candidates, docspec_paths, idx, prompt_parts,
                   docspecs_added, stdout, exit_code, prompt_file,
                   raised, invoked, written>>

NextFn ==
    \/ ApplyTargetMarkdownForDocspec
    \/ ApplyPrDiffText
    \/ ApplySubstituteTemplate
    \/ ApplyWithSuffix
    \/ ApplyTargetToDerived

SpecFn == InitFn /\ [][NextFn]_vars

-----------------------------------------------------------------------------
(* Vocabulary of the properties, stated on the file system and the inputs  *)

\* find_candidate_docspecs has returned
AfterFind == pc \in {"found", "loop", "exited", "returned"}

Abs(f) == Join(repo_root, f)

\* the name is <base>.docspec.md for some base
HasDocspecSuffix(n) == \E k \in 0..Len(n) : SubSeq(n, 1, k) \o DOT_DOCSPEC_MD = n

\* d is e or a directory above e
IsAncestorOrSelf(d, e) == Len(d) <= Len(e) /\ SubSeq(e, 1, Len(d)) = d

\* p is a *.docspec.md entry of its directory
IsDocspecEntry(p) ==
    p \in Universe /\ Kind(p) # "none" /\ HasDocspecSuffix(p.name)

\* the k-th changed file is a docspec that exists
IsDirectAt(k) ==
    HasDocspecSuffix(changed[k].name) /\ exists(Abs(changed[k]))

\* p is a directly changed docspec
IsDirect(p) == \E k \in 1..Len(changed) : Abs(changed[k]) = p /\ IsDirectAt(k)

\* the upward walk from the k-th changed file scans the directory of p
WalkReaches(k, p) ==
    /\ exists(Abs(changed[k]))
    /\ IsAncestorOrSelf(repo_root, p.dir)
    /\ IsAncestorOrSelf(p.dir, Abs(changed[k]).dir)

\* index of the first occurrence of x in s (0 if there is none)
FirstIndex(s, x) ==
    IF x \in Range(s) THEN CHOOSE i \in 1..Len(s) : s[i] = x /\ \A j \in 1..(i-1) : s[j] # x
    ELSE 0

\* the canonical paths of the directly changed docspecs listed before line k
DirectBefore(k) == {resolve(Abs(changed[j])) : j \in {i \in 1..(k-1) : IsDirectAt(i)}}

\* the canonical paths of the candidates discovered before the i-th one
SeenBefore(i) == {resolve(candidates[j]) : j \in 1..(i-1)}

\* the number of entries of s equal to x
Occurrences(s, x) == Cardinality({i \in 1..Len(s) : s[i] = x})

-----------------------------------------------------------------------------
\* C1: the list returned by find_candidate_docspecs never has more than
\* MAX_DOCSPECS entries, whatever the changed files and the file system.
C1_AtMostMaxDocspecs == AfterFind => Len(docspec_paths) <= MAX_DOCSPECS

\* more distinct candidates than the maximum were found and the list was cut
C1_Witness ==
    /\ pc = "found"
    /\ MAX_DOCSPECS >= 1
    /\ Cardinality({resolve(c) : c \in Range(candidates)}) > MAX_DOCSPECS
    /\ Len(docspec_paths) = MAX_DOCSPECS

-----------------------------------------------------------------------------
\* p is a directly changed docspec that the walk from another changed file
\* finds as well
DirectAndWalked(p) ==
    /\ IsDirect(p)
    /\ IsDocspecEntry(p)
    /\ \E k \in 1..Len(changed) : Abs(changed[k]) # p /\ WalkReaches(k, p)

\* position of p in the direct-change pass
DirectPosition(p) ==
    1 + Cardinality({i \in 1..(FirstIndex(changed, RelativeTo(p, repo_root)) - 1) :
                        IsDirectAt(i)})

\* position of p among the distinct directly changed docspecs
DistinctDirectPosition(p) ==
    1 + Cardinality(DirectBefore(FirstIndex(changed, RelativeTo(p, repo_root))))

\* C2 as stated: a docspec that is directly changed and also found by the walk
\* from another changed file is exactly once in the returned list, at the
\* position the direct-change pass gave it, and no two entries of the list
\* resolve to the same canonical path.
C2_ExactlyOnceAtDirectPosition ==
    AfterFind =>
      /\ \A p \in Universe : DirectAndWalked(p) =>
            /\ Occurrences(docspec_paths, p) = 1
            /\ FirstIndex(docspec_paths, p) = DirectPosition(p)
      /\ \A i, j \in 1..Len(docspec_paths) :
            i # j => resolve(docspec_paths[i]) # resolve(docspec_paths[j])

\* C2 amended: such a docspec is at most once in the returned list; it is in
\* the list, at its position among the distinct directly changed docspecs,
\* whenever that position is at most MAX_DOCSPECS and no docspec listed
\* earlier resolves to the same canonical path; and no two entries of the
\* list resolve to the same canonical path.
C2_OnceWithinLimit ==
    AfterFind =>
      /\ \A p \in Universe : DirectAndWalked(p) =>
            /\ Occurrences(docspec_paths, p) <= 1
            /\ ( /\ DistinctDirectPosition(p) <= MAX_DOCSPECS
                 /\ resolve(p) \notin
                      DirectBefore(FirstIndex(changed, RelativeTo(p, repo_root))) )
               => /\ Occurrences(docspec_paths, p) = 1
                  /\ FirstIndex(docspec_paths, p) = DistinctDirectPosition(p)
      /\ \A i, j \in 1..Len(docspec_paths) :
            i # j => resolve(docspec_paths[i]) # resolve(docspec_paths[j])

\* a directly changed docspec, also reached by the walk from another file, is
\* in the list once, and the de-duplication removed a candidate
C2_Witness ==
    /\ pc = "found"
    /\ \E p \in Universe :
          /\ DirectAndWalked(p)
          /\ Occurrences(docspec_paths, p) = 1
          /\ FirstIndex(docspec_paths, p) = DistinctDirectPosition(p)
    /\ Cardinality({resolve(c) : c \in Range(candidates)}) < Len(candidates)
    /\ Len(docspec_paths) < MAX_DOCSPECS

-----------------------------------------------------------------------------
\* p is a *.docspec.md entry of the repository root directory
IsRootDocspec(p) == IsDocspecEntry(p) /\ p.dir = repo_root

\* some changed file exists on disk
SomeChangedFileExists == \E k \in 1..Len(changed) : exists(Abs(changed[k]))

\* C3 as stated: when a changed file exists on disk, at any depth, every
\* *.docspec.md file of the repository root is found by the walk, and it is in
\* the returned list whenever fewer than MAX_DOCSPECS distinct candidates
\* precede it.
C3_RootDocspecReturned ==
    (AfterFind /\ SomeChangedFileExists) =>
      \A p \in Universe : IsRootDocspec(p) =>
          /\ p \in Range(candidates)
          /\ Cardinality(SeenBefore(FirstIndex(candidates, p))) < MAX_DOCSPECS
                => p \in Range(docspec_paths)

\* C3 amended: when a changed file exists on disk, at any depth, every
\* *.docspec.md file of the repository root is found by the walk, and it is in
\* the returned list whenever fewer than MAX_DOCSPECS distinct candidates
\* precede it and none of them resolves to the same canonical path.
C3_RootDocspecReturnedUnlessAliased ==
    (AfterFind /\ SomeChangedFileExists) =>
      \A p \in Universe : IsRootDocspec(p) =>
          /\ p \in Range(candidates)
          /\ ( /\ Cardinality(SeenBefore(FirstIndex(candidates, p))) < MAX_DOCSPECS
               /\ resolve(p) \notin SeenBefore(FirstIndex(candidates, p)) )
                => p \in Range(docspec_paths)

\* the only changed file lies two directories below the root, and the root
\* docspec is returned after a docspec found nearer to the file
C3_Witness ==
    /\ pc = "found"
    /\ changed = <<F_X_TS>>
    /\ Len(docspec_paths) >= 2
    /\ docspec_paths[Len(docspec_paths)] = Abs(F_README_DS)

-----------------------------------------------------------------------------
\* position of the entry in the enumeration of its directory
ScanPosition(p) == FirstIndex(ScanOrder, RelativeTo(p, repo_root))

\* the first changed file whose walk scans the directory of p
FirstReaching(p) ==
    CHOOSE k \in 1..Len(changed) :
        WalkReaches(k, p) /\ \A j \in 1..(k-1) : ~WalkReaches(j, p)

\* p is discovered by the walk before q
DiscoveredBefore(p, q) ==
    \/ FirstReaching(p) < FirstReaching(q)
    \/ /\ FirstReaching(p) = FirstReaching(q)
       /\ Len(p.dir) > Len(q.dir)
    \/ /\ FirstReaching(p) = FirstReaching(q)
       /\ p.dir = q.dir
       /\ ScanPosition(p) < ScanPosition(q)

\* C4: in the returned list every directly changed docspec precedes every
\* docspec found only by the walk; the directly changed ones are in
\* changed-file order and the walk-found ones in the order of their first
\* discovery (changed files in list order, each walked from its directory
\* upward to the root).
C4_DirectFirstThenDiscoveryOrder ==
    AfterFind =>
      \A i, j \in 1..Len(docspec_paths) : i < j =>
        LET p == docspec_paths[i]
            q == docspec_paths[j]
        IN  /\ ~(~IsDirect(p) /\ IsDirect(q))
            /\ (IsDirect(p) /\ IsDirect(q)) =>
                  FirstIndex(changed, RelativeTo(p, repo_root))
                    < FirstIndex(changed, RelativeTo(q, repo_root))
            /\ (~IsDirect(p) /\ ~IsDirect(q)) => DiscoveredBefore(p, q)

\* the directly changed docspec is listed after a file whose walk finds
\* another docspec, and still comes first in the result
C4_Witness ==
    /\ pc = "found"
    /\ Len(changed) = 2
    /\ ~HasDocspecSuffix(changed[1].name)
    /\ Len(docspec_paths) >= 2
    /\ docspec_paths[1] = Abs(changed[2])
    /\ ~IsDirect(docspec_paths[2])
    /\ WalkReaches(1, docspec_paths[2])

-----------------------------------------------------------------------------
\* C5: target_markdown_for_docspec returns no mapping for a path whose file
\* name does not end in ".docspec.md", and for a path named <base>.docspec.md
\* it returns <base>.md in the same directory.
C5_TargetMarkdownMapping ==
    (pc = "ret" /\ call.fn = "target_markdown_for_docspec") =>
      LET n == call.arg.name IN
      /\ ~HasDocspecSuffix(n) => call.ret = None
      /\ \A k \in 0..Len(n) :
            SubSeq(n, 1, k) \o DOT_DOCSPEC_MD = n =>
               call.ret = Some([dir |-> call.arg.dir, name |-> SubSeq(n, 1, k) \o DOT_MD])

\* x.docspec.md in directory a was mapped to a/x.md
C5_Witness ==
    /\ pc = "ret"
    /\ call.fn = "target_markdown_for_docspec"
    /\ call.arg = [dir |-> <<"a">>, name |-> <<"x", ".", "docspec", ".", "md">>]
    /\ call.ret = Some([dir |-> <<"a">>, name |-> <<"x", ".", "md">>])

-----------------------------------------------------------------------------
\* the target markdown of docspec p, <base>.md next to it, exists on disk
TargetExists(p) ==
    \E q \in Universe :
        /\ q.dir = p.dir
        /\ \E k \in 0..Len(p.name) :
              /\ SubSeq(p.name, 1, k) \o DOT_DOCSPEC_MD = p.name
              /\ q.name = SubSeq(p.name, 1, k) \o DOT_MD
        /\ exists(q)

\* the number of "## Docspec:" sections of a prompt
SectionCount(parts) == Cardinality({i \in 1..Len(parts) : parts[i].kind = "## Docspec:"})

\* the candidates that are the first of their canonical path
Discovered == {i \in 1..Len(candidates) : resolve(candidates[i]) \notin SeenBefore(i)}

\* the first MAX_DOCSPECS discovered candidates
FirstDiscovered ==
    {i \in Discovered : Cardinality({j \in Discovered : j < i}) < MAX_DOCSPECS}

\* every changed file is a directly changed docspec with a target markdown,
\* and they are all different files
AllDirectWithTarget ==
    /\ \A k \in 1..Len(changed) : IsDirectAt(k) /\ TargetExists(Abs(changed[k]))
    /\ Cardinality({resolve(Abs(changed[k])) : k \in 1..Len(changed)}) = Len(changed)

\* C6: the number of "## Docspec:" sections of the emitted prompt is the number
\* of entries, among the first MAX_DOCSPECS discovered candidates, whose target
\* markdown exists; with more directly changed docspecs than MAX_DOCSPECS, all
\* with a target markdown, exactly MAX_DOCSPECS sections appear.
C6_SectionsOfPrompt ==
    pc = "returned" =>
      /\ SectionCount(stdout) =
            Cardinality({i \in FirstDiscovered : TargetExists(candidates[i])})
      /\ (AllDirectWithTarget /\ Len(changed) >= MAX_DOCSPECS)
            => SectionCount(stdout) = MAX_DOCSPECS

\* more directly changed docspecs with targets than MAX_DOCSPECS, and exactly
\* MAX_DOCSPECS sections in the prompt
C6_Witness ==
    /\ pc = "returned"
    /\ AllDirectWithTarget
    /\ Len(changed) > MAX_DOCSPECS
    /\ SectionCount(stdout) = MAX_DOCSPECS

-----------------------------------------------------------------------------
\* no part of a prompt was printed
NoPromptEmitted ==
    \A i \in 1..Len(stdout) :
        stdout[i].kind \notin {"<diff>", "diff", "</diff>", "## Docspec:", "Task:"}

\* C7: a candidate whose target markdown does not exist contributes no section
\* to the prompt; and if no candidate has an existing target markdown, main
\* ends with exit code 0 without emitting a prompt and without creating the
\* output file.
C7_MissingTargetSkipped ==
    AfterFind =>
      /\ \A i \in 1..Len(docspec_paths) :
            ~TargetExists(docspec_paths[i]) =>
               \A j \in 1..Len(prompt_parts) :
                  prompt_parts[j].kind = "## Docspec:" =>
                     prompt_parts[j].path # RelativeTo(docspec_paths[i], repo_root)
      /\ ( /\ docspec_paths # <<>>
           /\ \A i \in 1..Len(docspec_paths) : ~TargetExists(docspec_paths[i]) )
         => /\ pc \in {"found", "loop", "exited"}
            /\ docspecs_added = 0
            /\ pc = "exited" <=> exit_code = 0
            /\ NoPromptEmitted
            /\ prompt_file = "absent"

\* two candidates, neither with a target markdown: main has exited with 0
C7_Witness ==
    /\ pc = "exited"
    /\ exit_code = 0
    /\ Len(docspec_paths) = 2
    /\ \A i \in 1..Len(docspec_paths) : ~TargetExists(docspec_paths[i])

-----------------------------------------------------------------------------
\* C8: when the changed files yield no candidate docspec, main ends with exit
\* code 0, emits no prompt and produces no output file.
C8_NoCandidatesExitZero ==
    (AfterFind /\ docspec_paths = <<>>) =>
      /\ pc \in {"found", "exited"}
      /\ pc = "exited" <=> exit_code = 0
      /\ NoPromptEmitted
      /\ prompt_file = "absent"

\* no changed file, an empty diff: main has exited with 0
C8_Witness ==
    /\ pc = "exited"
    /\ exit_code = 0
    /\ changed = <<>>
    /\ diff = <<>>
    /\ docspec_paths = <<>>

-----------------------------------------------------------------------------
\* the process has ended
Ended == pc \in {"exited", "returned", "raised"}

\* C9: when a discovered docspec has an existing target markdown, main returns
\* normally and the file named by PROMPT_OUTPUT_FILE then exists and holds the
\* assembled prompt.
C9_PromptFileWritten ==
    (Ended /\ \E i \in 1..Len(docspec_paths) : TargetExists(docspec_paths[i])) =>
      /\ pc = "returned"
      /\ prompt_file # "absent"

-----------------------------------------------------------------------------
\* s is out without its leading and trailing whitespace
IsStripped(s, out) ==
    \E i \in 1..(Len(out) + 1) : \E j \in (i-1)..Len(out) :
        /\ s = SubSeq(out, i, j)
        /\ \A k \in 1..(i-1) : out[k] \in WS
        /\ \A k \in (j+1)..Len(out) : out[k] \in WS
        /\ s # <<>> => (s[1] \notin WS /\ s[Len(s)] \notin WS)

\* the result r is text s cut to the limit, with the marker when it was cut
IsCut(r, s) ==
    /\ Len(s) <= MAX_DIFF_CHARS => r = s
    /\ Len(s) > MAX_DIFF_CHARS =>
          /\ r = SubSeq(s, 1, MAX_DIFF_CHARS) \o DIFF_TRUNCATED
          /\ SubSeq(r, Len(r) - Len(DIFF_TRUNCATED) + 1, Len(r)) = DIFF_TRUNCATED
          /\ Len(r) <= MAX_DIFF_CHARS + Len(DIFF_TRUNCATED)

\* C10 as stated: pr_diff_text returns the git diff unchanged when its length
\* is at most MAX_DIFF_CHARS, and otherwise its first MAX_DIFF_CHARS characters
\* followed by the truncation marker.
C10_DiffUnchangedOrCut ==
    (pc = "ret" /\ call.fn = "pr_diff_text") => IsCut(call.ret, call.arg)

\* C10 amended: pr_diff_text returns the git diff with its leading and trailing
\* whitespace removed when the length of that text is at most MAX_DIFF_CHARS,
\* and otherwise the first MAX_DIFF_CHARS characters of that text followed by
\* the truncation marker, so that the result ends with the marker and is at
\* most MAX_DIFF_CHARS plus the marker length long.
C10_StrippedDiffUnchangedOrCut ==
    (pc = "ret" /\ call.fn = "pr_diff_text") =>
      \A s \in {SubSeq(call.arg, i, j) : i \in 1..(Len(call.arg) + 1), j \in 0..Len(call.arg)} :
          IsStripped(s, call.arg) => IsCut(call.ret, s)

\* a diff longer than the limit, ending in a newline, was cut and marked
C10_Witness ==
    /\ pc = "ret"
    /\ call.fn = "pr_diff_text"
    /\ MAX_DIFF_CHARS >= 1
    /\ Len(call.arg) >= MAX_DIFF_CHARS + 2
    /\ call.arg[1] = "+"
    /\ call.arg[Len(call.arg)] = "\n"
    /\ call.arg[Len(call.arg) - 1] = "+"
    /\ Len(call.ret) = MAX_DIFF_CHARS + Len(DIFF_TRUNCATED)

-----------------------------------------------------------------------------
\* the docspec_paths that have an existing target markdown (the included pairs)
Included == {i \in 1..Len(docspec_paths) : TargetExists(docspec_paths[i])}

\* the k-th included pair, in the order of docspec_paths
KthIncluded(k) ==
    CHOOSE i \in Included : Cardinality({j \in Included : j < i}) = k - 1

\* the positions of the parts of the given kind
PositionsOf(parts, kind) == {i \in 1..Len(parts) : parts[i].kind = kind}

\* parts[from..] starts with the section of the pair (docspec, target)
IsSectionAt(parts, from, docspec, target) ==
    /\ from + 10 <= Len(parts)
    /\ parts[from] = Part("## Docspec:", RelativeTo(docspec, repo_root), <<>>)
    /\ parts[from + 1] = Part("Target markdown:", RelativeTo(target, repo_root), <<>>)
    /\ parts[from + 3].kind = "<docspec>"
    /\ parts[from + 4] = Part("text", NoPath, read_text(docspec))
    /\ parts[from + 5].kind = "</docspec>"
    /\ parts[from + 7].kind = "<markdown>"
    /\ parts[from + 8] = Part("text", NoPath, read_text(target))
    /\ parts[from + 9].kind = "</markdown>"

\* C11: the prompt main prints consists, in this order, of the diff between
\* the <diff> and </diff> tags, then one section per included pair in the
\* order of the candidate list (docspec path label, target path label, the
\* docspec contents in <docspec> tags, the markdown contents in <markdown>
\* tags), then the 'Task:' trailer, which occurs exactly once and ends the
\* prompt.
C11_PromptOrder ==
    pc = "returned" =>
      LET n == Cardinality(Included)
      IN  /\ PositionsOf(stdout, "<diff>") = {2}
          /\ stdout[3] = Part("diff", NoPath, diff)
          /\ PositionsOf(stdout, "</diff>") = {4}
          /\ Cardinality(PositionsOf(stdout, "## Docspec:")) = n
          /\ \A k \in 1..n :
                LET docspec == docspec_paths[KthIncluded(k)]
                    target == [dir |-> docspec.dir,
                               name |-> SubSeq(docspec.name, 1, Len(docspec.name) - Len(DOT_DOCSPEC_MD))
                                        \o DOT_MD]
                IN  IsSectionAt(stdout, 8 + 11 * (k - 1), docspec, target)
          /\ PositionsOf(stdout, "Task:") = {8 + 11 * n}
          /\ Len(stdout) = 8 + 11 * n + Len(TaskParts) - 1
          /\ \A i \in (8 + 11 * n)..Len(stdout) :
                stdout[i].kind \notin {"<diff>", "diff", "</diff>", "## Docspec:",
                                       "<docspec>", "<markdown>"}

\* a prompt with a diff that is not empty and with two sections
C11_Witness ==
    /\ pc = "returned"
    /\ diff # <<>>
    /\ Cardinality(Included) = 2
    /\ Cardinality(PositionsOf(stdout, "## Docspec:")) = 2

-----------------------------------------------------------------------------
\* C12: if BASE_SHA or MERGE_SHA is not set, main fails with a non-zero exit
\* status and an error that names a variable that is not set; no git command
\* is run before that and no prompt is printed.
C12_MissingEnvFails ==
    ~(env["BASE_SHA"] /\ env["MERGE_SHA"]) =>
      /\ pc \in {"env", "raised"}
      /\ invoked = <<>>
      /\ stdout = <<>>
      /\ pc = "raised" =>
            /\ exit_code # 0
            /\ raised # None
            /\ raised.msg \in {"BASE_SHA", "MERGE_SHA"}
            /\ ~env[raised.msg]

\* main failed because MERGE_SHA, and only MERGE_SHA, is not set
C12_Witness ==
    /\ pc = "raised"
    /\ env["BASE_SHA"] /\ ~env["MERGE_SHA"]
    /\ raised = Exc("KeyError", "MERGE_SHA")

-----------------------------------------------------------------------------
\* a git command of the run failed
GitFailed ==
    \E i \in 1..Len(invoked) :
        /\ invoked[i].cmd \in {"git diff --name-only", "git diff"}
        /\ invoked[i].outcome # "ok"

\* C13: if the git command run by list_changed_files or by pr_diff_text fails
\* (git exits non-zero or there is no git executable), the run is aborted by
\* an error with a non-zero exit status; no candidate list is computed and no
\* prompt is printed.
C13_GitFailureAborts ==
    GitFailed =>
      /\ pc = "raised"
      /\ exit_code # 0
      /\ raised # None
      /\ candidates = <<>>
      /\ docspec_paths = <<>>
      /\ prompt_parts = <<>>
      /\ stdout = <<>>

\* the changed files were listed, then `git diff` was not found
C13_Witness ==
    /\ pc = "raised"
    /\ Len(invoked) = 2
    /\ invoked[1].outcome = "ok"
    /\ invoked[2] = Ran("git diff", 0, "missing")
    /\ changed # <<>>

-----------------------------------------------------------------------------
\* s starts with pre
StartsWith(s, pre) == Len(pre) <= Len(s) /\ SubSeq(s, 1, Len(pre)) = pre

Drop(s, n) == SubSeq(s, n + 1, Len(s))

\* the supplied names whose placeholder, written open \o name \o close,
\* starts t
PlaceholderAt(t, kwargs, open, close) ==
    {n \in DOMAIN kwargs : StartsWith(t, open \o n \o close)}

\* t with every ${name} of a supplied name replaced by its value, from left
\* to right, and every other character kept
RECURSIVE ReplaceBraced(_, _)
ReplaceBraced(t, kwargs) ==
    IF t = <<>> THEN <<>>
    ELSE LET braced == PlaceholderAt(t, kwargs, <<"$", "{">>, <<"}">>)
         IN  IF braced # {}
             THEN LET n == CHOOSE n \in braced : TRUE
                  IN  kwargs[n] \o ReplaceBraced(Drop(t, Len(n) + 3), kwargs)
             ELSE <<t[1]>> \o ReplaceBraced(Tail(t), kwargs)

\* the supplied names n such that t starts with $n and the name ends there
BareAt(t, kwargs) ==
    {n \in PlaceholderAt(t, kwargs, <<"$">>, <<>>) :
        Len(t) = Len(n) + 1 \/ ~IsIdChar(t[Len(n) + 2])}

\* the length of the name that follows the "$" which starts t
NameLen(t) ==
    CHOOSE k \in 0..(Len(t) - 1) :
        /\ \A i \in 2..(k + 1) : IsIdChar(t[i])
        /\ (k + 1 = Len(t) \/ ~IsIdChar(t[k + 2]))

\* t with every ${name} and every $name of a supplied name replaced by its
\* value and every $$ replaced by $, from left to right; a $name of a name
\* that is not supplied is kept whole, and every other character is kept
RECURSIVE ReplacePlaceholders(_, _)
ReplacePlaceholders(t, kwargs) ==
    IF t = <<>> THEN <<>>
    ELSE LET braced == PlaceholderAt(t, kwargs, <<"$", "{">>, <<"}">>)
             bare == BareAt(t, kwargs)
         IN  IF StartsWith(t, <<"$", "$">>)
             THEN <<"$">> \o ReplacePlaceholders(Drop(t, 2), kwargs)
             ELSE IF bare # {}
             THEN LET n == CHOOSE n \in bare : TRUE
                  IN  kwargs[n] \o ReplacePlaceholders(Drop(t, Len(n) + 1), kwargs)
             ELSE IF braced # {}
             THEN LET n == CHOOSE n \in braced : TRUE
                  IN  kwargs[n] \o ReplacePlaceholders(Drop(t, Len(n) + 3), kwargs)
             ELSE IF t[1] = "$"
             THEN SubSeq(t, 1, 1 + NameLen(t))
                  \o ReplacePlaceholders(Drop(t, 1 + NameLen(t)), kwargs)
             ELSE <<t[1]>> \o ReplacePlaceholders(Tail(t), kwargs)

SubstituteReturned == pc = "ret" /\ call.fn = "substitute_template"

\* C18 as stated: substitute_template replaces only the ${variable}
\* placeholders of the original template, in a single pass, and leaves all
\* other template text unchanged.
C18_OnlyBracedReplaced ==
    SubstituteReturned =>
        call.ret = ReplaceBraced(call.arg.template, call.arg.kwargs)

\* C18: substitute_template replaces the placeholders of the supplied
\* variables that occur in the original template, written ${variable} or
\* $variable, in a single pass (text inside a substituted value is never
\* expanded), writes the escape $$ as a single $, and leaves all other
\* template text unchanged.
C18_PlaceholdersReplacedOnce ==
    SubstituteReturned =>
        call.ret = ReplacePlaceholders(call.arg.template, call.arg.kwargs)

\* a template with text in braces and a placeholder, whose value holds a
\* placeholder itself: the value is in the output as it is
C18_Witness ==
    /\ SubstituteReturned
    /\ call.arg.template = <<"{", "$", "{", "a", "}">>
    /\ call.arg.kwargs[<<"a">>] = <<"$", "{", "a", "}", "x">>
    /\ call.ret = <<"{", "$", "{", "a", "}", "x">>

-----------------------------------------------------------------------------
(* Properties of main of prepare-docspec-generate-prompts.py *)

\* MARKDOWN_FILE names a file that exists
MarkdownGiven == ~NoMarkdownFile /\ exists(md_path)

\* a plan prompt or an implementation prompt was printed
PromptsEmitted ==
    \E i \in 1..Len(stdout) :
        stdout[i].kind \in {"===PLAN_PROMPT_START===", "===IMPL_PROMPT_START===",
                            "prompt"}

\* the docspec paired with MARKDOWN_FILE exists and the run has not written it
DocspecAlreadyExists ==
    /\ MarkdownGiven
    /\ exists(generated_docspec_path)
    /\ \A w \in written : w.path # generated_docspec_path

\* C16: when the docspec paired with MARKDOWN_FILE already exists and
\* OVERWRITE_DOCSPEC is 'false', main does not run the docspec CLI and ends
\* with a non-zero exit status and an error saying that the docspec already
\* exists.
C16_ExistingDocspecRefused ==
    (DocspecAlreadyExists /\ env.OVERWRITE_DOCSPEC = Some("false")) =>
      /\ invoked = <<>>
      /\ Ended => /\ pc = "raised"
                  /\ exit_code # 0
                  /\ raised = Exc("RuntimeError", "Docspec already exists")

PLAN_PROMPT_TXT == Join(repo_root, [dir |-> <<>>, name |-> <<"plan_prompt", ".", "txt">>])
IMPL_PROMPT_TXT == Join(repo_root, [dir |-> <<>>, name |-> <<"impl_prompt", ".", "txt">>])

\* C17: when MARKDOWN_FILE names an existing markdown file and the docspec
\* was generated, main returns with the files plan_prompt.txt and
\* impl_prompt.txt written in the repository root.
C17_PromptFilesWritten ==
    (pc = "returned" /\ MarkdownGiven /\ exists(generated_docspec_path)) =>
      /\ {PLAN_PROMPT_TXT, IMPL_PROMPT_TXT} \subseteq {w.path : w \in written}
      /\ exists(PLAN_PROMPT_TXT)
      /\ exists(IMPL_PROMPT_TXT)

\* the docspec CLI was run with this outcome
GenerateRan(outcome) ==
    \E i \in 1..Len(invoked) : invoked[i] = Ran("docspec generate", 0, outcome)

\* C19: main prints a prompt only if MARKDOWN_FILE is set, the markdown file
\* exists and the docspec CLI completed successfully; if the variable is not
\* set, the file is missing, the CLI is not found or the CLI exits non-zero,
\* main ends with a RuntimeError that names the cause and prints no prompt,
\* and in the first two cases the docspec CLI is never run.
C19_PromptOnlyAfterGeneration ==
    /\ PromptsEmitted => (MarkdownGiven /\ GenerateRan("ok"))
    /\ NoMarkdownFile =>
          /\ invoked = <<>> /\ ~PromptsEmitted /\ pc \in {"g_env", "raised"}
          /\ pc = "raised" =>
                /\ raised = Exc("RuntimeError",
                                "MARKDOWN_FILE environment variable is not set")
                /\ exit_code # 0
    /\ (~NoMarkdownFile /\ ~exists(md_path)) =>
          /\ invoked = <<>> /\ ~PromptsEmitted
          /\ pc \in {"g_env", "g_exists", "raised"}
          /\ pc = "raised" =>
                /\ raised = Exc("RuntimeError", "Markdown file not found")
                /\ exit_code # 0
    /\ GenerateRan("missing") =>
          /\ pc = "raised" /\ ~PromptsEmitted /\ exit_code # 0
          /\ raised = Exc("RuntimeError", "docspec CLI not found")
    /\ GenerateRan("nonzero") =>
          /\ pc = "raised" /\ ~PromptsEmitted /\ exit_code # 0
          /\ raised = Exc("RuntimeError", "Failed to generate docspec")

\* the markdown file exists and the docspec CLI could not be found: main
\* ended with the error that names it
C19_Witness ==
    /\ pc = "raised"
    /\ MarkdownGiven
    /\ GenerateRan("missing")
    /\ raised = Exc("RuntimeError", "docspec CLI not found")

-----------------------------------------------------------------------------
(* Properties of the action scripts *)

\* the i-th command that was run failed: it exited non-zero, was not found
\* or was stopped at its timeout
Failed(i) == invoked[i].outcome \in {"nonzero", "missing", "timeout"}

\* the run was ended by an exception with a message
Aborted ==
    /\ pc = "raised"
    /\ exit_code # 0
    /\ raised # None
    /\ raised.msg # ""

OnlyWarned(r) ==
    \/ r.cmd = "claude --version" /\ r.outcome \in {"nonzero", "timeout"}
    \/ r.cmd = "docspec validate" /\ r.outcome = "missing"

\* the warning printed for a failure that is only warned about
WarningFor(r) ==
    IF r.cmd = "docspec validate"
    THEN Line("Warning: docspec CLI not found, skipping validation")
    ELSE IF r.outcome = "nonzero"
    THEN Line("Warning: 'claude --version' failed")
    ELSE Line("Warning: Could not verify Claude CLI")

-----------------------------------------------------------------------------
\* the run is one of docspec_check.py
IsCheckRun == "REPO" \in DOMAIN env

\* the Claude CLI was called for the i-th pair
ClaudeCalledFor(i) ==
    \E j \in 1..Len(invoked) :
        invoked[j].cmd = "claude --version" /\ invoked[j].arg = i

\* the i-th pair was skipped
Skipped(i) ==
    Part("Skipping docspec without valid target:", docspec_paths[i], <<>>)
        \in Range(stdout)

\* C15: in the loop of docspec_check main, a pair skipped because its
\* target markdown is missing does not stop the later pairs: every pair
\* before the current one was either skipped (no target) or given to the
\* Claude CLI (target exists), and a run that ends normally has handled all
\* pairs.  An exception raised for one pair aborts the run: it ends with a
\* non-zero exit status and no later pair is skipped or given to Claude.
C15_SkipContinuesExceptionAborts ==
    (IsCheckRun /\ docspec_paths # <<>>) =>
      /\ pc \in {"k_loop", "returned"} =>
            /\ raised = None
            /\ \A i \in 1..(idx - 1) :
                  IF TargetExists(docspec_paths[i])
                  THEN ClaudeCalledFor(i) /\ ~Skipped(i)
                  ELSE Skipped(i) /\ ~ClaudeCalledFor(i)
            /\ pc = "returned" => idx = Len(docspec_paths) + 1
      /\ pc = "raised" =>
            /\ exit_code # 0
            /\ idx <= Len(docspec_paths)
            /\ ClaudeCalledFor(idx)
            /\ \A j \in (idx + 1)..Len(docspec_paths) :
                  ~Skipped(j) /\ ~ClaudeCalledFor(j)

\* the first pair was skipped, the second was given to Claude, and the run
\* ended normally
C15_Witness ==
    /\ IsCheckRun
    /\ pc = "returned"
    /\ Len(docspec_paths) = 2
    /\ Skipped(1) /\ ~ClaudeCalledFor(1)
    /\ ClaudeCalledFor(2)

\* the Claude CLI failed for the first pair, whose successor has a target
\* markdown, and the run ended there
C15_WitnessAbort ==
    /\ IsCheckRun
    /\ pc = "raised"
    /\ Len(docspec_paths) = 2
    /\ idx = 1
    /\ invoked[Len(invoked)] = Ran("claude", 1, "nonzero")
    /\ TargetExists(docspec_paths[2])

-----------------------------------------------------------------------------
SameEnumerationOrder == call.arg.scan_rev = scan_rev

-----------------------------------------------------------------------------
\* the commands the action scripts run
ExternalCommands ==
    {"git diff --name-only", "git diff", "docspec generate",
     "docspec validate", "claude --version", "claude"}

\* C21 as stated: every external-process call of the scripts (git diff,
\* docspec generate, docspec validate, claude --version, the Claude prompt
\* call) is bounded by a timeout, so that no call keeps the script waiting
\* without bound, and a call stopped at its timeout aborts the run.
C21_EveryCallBoundedExpiryFatal ==
    /\ pc # "blocked"
    /\ \A i \in 1..Len(invoked) :
          /\ invoked[i].cmd \in ExternalCommands
          /\ invoked[i].outcome # "hang"
          /\ invoked[i].outcome = "timeout" => (Aborted /\ i = Len(invoked))

-----------------------------------------------------------------------------
\* the target markdown of the pair the loop of docspec_check main is at
CurrentTarget == target_markdown_for_docspec(docspec_paths[idx])[1]

\* the run is aborted by the RuntimeError with message m in the next state,
\* and nothing more was run
AbortsWith(m) ==
    /\ pc' = "raised"
    /\ exit_code' # 0
    /\ raised' = Exc("RuntimeError", m)
    /\ invoked' = invoked
    /\ idx' = idx

\* C22: if the target markdown (docspec_check) or the markdown or the
\* docspec (docspec_generate) no longer exists when the Claude CLI call that
\* edits the files has returned, the next step of main aborts the run with a
\* 'was deleted' RuntimeError: the loop does not go on to the next pair and
\* the validation is not run.
C22_DeletedFileAborts ==
    [][ /\ (pc = "k_called" /\ ~exists(CurrentTarget)) =>
              AbortsWith("Markdown file was deleted")
        /\ (pc = "d_verify" /\ ~exists(md_path)) =>
              AbortsWith("Markdown file was deleted")
        /\ (pc = "d_verify" /\ exists(md_path) /\ ~exists(generated_docspec_path)) =>
              AbortsWith("Docspec file was deleted")
      ]_vars

\* the Claude CLI deleted the target markdown of the first of two pairs, the
\* second of which has a target markdown too: the run was aborted at the
\* first pair
C22_Witness ==
    /\ IsCheckRun
    /\ pc = "raised"
    /\ raised = Exc("RuntimeError", "Markdown file was deleted")
    /\ exit_code # 0
    /\ idx = 1
    /\ Len(docspec_paths) = 2
    /\ ~exists(target_markdown_for_docspec(docspec_paths[1])[1])
    /\ TargetExists(docspec_paths[2])
    /\ invoked[Len(invoked)] = Ran("claude", 1, "ok")

-----------------------------------------------------------------------------
\* p is an entry of the directory of the k-th changed file or of a directory
\* above it, up to the repository root
SitsAbove(p, k) ==
    /\ IsAncestorOrSelf(repo_root, p.dir)
    /\ IsAncestorOrSelf(p.dir, Abs(changed[k]).dir)

\* the walk from some existing changed file scans the directory of p
ReachedByWalk(p) == \E j \in 1..Len(changed) : WalkReaches(j, p)

\* C23 as stated: a changed file that does not exist starts no walk: a
\* docspec in its directory or in a directory above it that the walk from no
\* existing changed file reaches is not returned, and a directly changed
\* docspec that does not exist is not returned.
C23_MissingFileStartsNoWalk ==
    AfterFind =>
      \A k \in 1..Len(changed) :
        ~exists(Abs(changed[k])) =>
          /\ \A p \in Universe :
                (IsDocspecEntry(p) /\ SitsAbove(p, k) /\ ~ReachedByWalk(p)) =>
                    p \notin Range(docspec_paths)
          /\ HasDocspecSuffix(changed[k].name) =>
                Abs(changed[k]) \notin Range(docspec_paths)

\* C23: a changed file that does not exist starts no walk: a docspec in its
\* directory or in a directory above it that the walk from no existing
\* changed file reaches is not returned, and a directly changed docspec that
\* does not exist is not returned, unless it is a dangling symbolic link in
\* a directory that the walk from an existing changed file scans.
C23_MissingFileStartsNoWalkUnlessDangling ==
    AfterFind =>
      \A k \in 1..Len(changed) :
        ~exists(Abs(changed[k])) =>
          /\ \A p \in Universe :
                (IsDocspecEntry(p) /\ SitsAbove(p, k) /\ ~ReachedByWalk(p)) =>
                    p \notin Range(docspec_paths)
          /\ (/\ HasDocspecSuffix(changed[k].name)
              /\ Abs(changed[k]) \in Range(docspec_paths)) =>
                (/\ Kind(Abs(changed[k])) = "link"
                 /\ ReachedByWalk(Abs(changed[k])))

\* a changed file is missing, a docspec that exists above it is reached by
\* no walk and is not returned, while another changed file gave a candidate
C23_Witness ==
    /\ AfterFind
    /\ docspec_paths # <<>>
    /\ \E k \in 1..Len(changed), p \in Universe :
          /\ ~exists(Abs(changed[k]))
          /\ IsDocspecEntry(p) /\ exists(p)
          /\ SitsAbove(p, k)
          /\ ~ReachedByWalk(p)
          /\ p \notin Range(docspec_paths)

-----------------------------------------------------------------------------
\* the walk from an existing changed file other than p itself scans the
\* directory of p
ReachedFromOther(p) ==
    \E j \in 1..Len(changed) : Abs(changed[j]) # p /\ WalkReaches(j, p)

-----------------------------------------------------------------------------
\* C25 as stated: every entry of the list returned by
\* find_candidate_docspecs exists and has a file name ending in
\* ".docspec.md", so that target_markdown_for_docspec returns a path for it.
C25_ReturnedExistAndMap ==
    AfterFind =>
      \A i \in 1..Len(docspec_paths) :
        /\ exists(docspec_paths[i])
        /\ HasDocspecSuffix(docspec_paths[i].name)
        /\ target_markdown_for_docspec(docspec_paths[i]) # None

\* C25: every entry of the list returned by find_candidate_docspecs has a
\* file name ending in ".docspec.md", so that target_markdown_for_docspec
\* returns a path for it, and it exists, except that an entry found by the
\* walk may be a dangling symbolic link.
C25_ReturnedMapAndExistUnlessDangling ==
    AfterFind =>
      \A i \in 1..Len(docspec_paths) :
        /\ HasDocspecSuffix(docspec_paths[i].name)
        /\ target_markdown_for_docspec(docspec_paths[i]) # None
        /\ \/ exists(docspec_paths[i])
           \/ /\ Kind(docspec_paths[i]) = "link"
              /\ ReachedByWalk(docspec_paths[i])

\* two candidates are returned, a docspec that exists and a dangling link
\* found by the walk, and each of them has a target markdown path
C25_Witness ==
    /\ AfterFind
    /\ Len(docspec_paths) = 2
    /\ exists(docspec_paths[1])
    /\ ~exists(docspec_paths[2])
    /\ target_markdown_for_docspec(docspec_paths[1]) = Some(Abs(F_API_MD))
    /\ target_markdown_for_docspec(docspec_paths[2]) # None

-----------------------------------------------------------------------------
\* the i-th command that was run is the Claude prompt command
IsPromptCommand(i) == invoked[i].cmd = "claude"

\* the i-th command that was run is the version check of verify_claude_cli
IsVersionCheck(i) == invoked[i].cmd = "claude --version"

\* C26: run_claude_cli verifies the CLI, then checks the API key, then
\* executes the prompt command: a prompt command is run only right after
\* the version check of the same call, which found the executable, and with
\* ANTHROPIC_API_KEY set and not empty; with the key unset or empty a call
\* of run_claude_cli raises RuntimeError after the version check and runs no
\* prompt command; a prompt command that exits non-zero, times out or is
\* not found raises RuntimeError and main gets no result.
C26_VerifyThenKeyThenExecute ==
    \A i \in 1..Len(invoked) :
      /\ IsPromptCommand(i) =>
            /\ i > 1
            /\ IsVersionCheck(i - 1)
            /\ invoked[i - 1].arg = invoked[i].arg
            /\ invoked[i - 1].outcome # "missing"
            /\ env.ANTHROPIC_API_KEY
      /\ (IsVersionCheck(i) /\ ~env.ANTHROPIC_API_KEY) =>
            /\ i = Len(invoked)
            /\ pc = "raised"
            /\ raised # None
            /\ raised.type = "RuntimeError"
      /\ (IsPromptCommand(i) /\ invoked[i].outcome # "ok") =>
            /\ i = Len(invoked)
            /\ pc = "raised"
            /\ raised = ClaudeError(invoked[i].outcome)
            /\ raised.type = "RuntimeError"

\* the API key is not set: the version check of the plan phase timed out,
\* which is only warned about, the key check raised, and no prompt command
\* was run
C26_Witness ==
    /\ ~env.ANTHROPIC_API_KEY
    /\ pc = "raised"
    /\ invoked # <<>>
    /\ invoked[Len(invoked)] = Ran("claude --version", 1, "timeout")
    /\ raised = Exc("RuntimeError",
                    "ANTHROPIC_API_KEY environment variable is not set or is empty")
    /\ \A i \in 1..Len(invoked) : ~IsPromptCommand(i)

-----------------------------------------------------------------------------
\* the directories scanned for the k-th changed file, in the order of the
\* scans
ScannedFor(k) ==
    LET of_k == SelectSeq(call.ret, LAMBDA r : r.file = k)
    IN  [i \in 1..Len(of_k) |-> of_k[i].dir]

\* the directory of the k-th changed file and the directories above it up
\* to the repository root, nearest first
ChainToRoot(k) ==
    LET d == Abs(changed[k]).dir
    IN  [i \in 1..(Len(d) - Len(repo_root) + 1) |-> SubSeq(d, 1, Len(d) + 1 - i)]

\* the walk from the k-th changed file is over
WalkOver(k) == k < idx \/ pc = "w_done"

\* C27: for every changed file that exists inside the repository root the
\* upward walk of find_candidate_docspecs terminates; it has scanned the
\* directory of the file and every directory above it up to and including
\* the repository root, each exactly once and nearest first; no directory
\* outside the repository root is ever scanned.
C27_WalkTerminatesAtRoot ==
    /\ [](/\ \A i \in 1..Len(call.ret) :
                /\ IsAncestorOrSelf(repo_root, call.ret[i].dir)
                /\ \A j \in 1..Len(call.ret) :
                      call.ret[j] = call.ret[i] => j = i
           /\ \A k \in 1..Len(changed) :
                WalkOver(k) =>
                    ScannedFor(k) = IF exists(Abs(changed[k]))
                                    THEN ChainToRoot(k) ELSE <<>>)
    /\ <>(pc = "w_done")

\* the walk from a/b/x.ts is over: a/b, a and the repository root were
\* scanned, in this order, and a docspec of a/ was found
C27_Witness ==
    /\ pc = "w_done"
    /\ changed = <<F_X_TS, F_README_MD>>
    /\ ScannedFor(1) = << repo_root \o <<"a", "b">>, repo_root \o <<"a">>, repo_root >>
    /\ Abs(F_API_DS) \in Range(candidates)

-----------------------------------------------------------------------------
\* the run is one of docspec_generate.py
IsGenerateRun == "MARKDOWN_FILE" \in DOMAIN env

\* the commands of the phases of docspec_generate main, in the order of the
\* phases: generation, plan, implementation, validation
PhaseCommands ==
    << Ran("docspec generate", 0, "ok"),
       Ran("claude --version", 1, "ok"), Ran("claude", 1, "ok"),
       Ran("claude --version", 2, "ok"), Ran("claude", 2, "ok"),
       Ran("docspec validate", 0, "ok") >>

Printed(text) == Line(text) \in Range(stdout)

PlanStarted == Printed("Discovering information gaps with Claude...")
ImplementationStarted == Printed("Updating files based on information discovery...")
VerificationStarted == Printed("Verifying changes ...")
ValidationStarted == Printed("Validating updated docspec...")

\* C28: in docspec_generate main the commands of the phases are run in the
\* order generation, plan, implementation, validation, each at most once,
\* and a command is run only if every earlier one succeeded or was only
\* warned about; the plan phase starts only after the docspec was generated
\* and read, the implementation phase only after the plan phase returned a
\* plan that is not empty, the verification only after the implementation
\* call succeeded, the validation only after the verification found both
\* files; a run that raised in one phase has started no later phase.
C28_PhasesInOrder ==
    IsGenerateRun =>
      /\ Len(invoked) <= Len(PhaseCommands)
      /\ \A i \in 1..Len(invoked) :
            /\ invoked[i].cmd = PhaseCommands[i].cmd
            /\ invoked[i].arg = PhaseCommands[i].arg
            /\ i < Len(invoked) => (invoked[i].outcome = "ok" \/ OnlyWarned(invoked[i]))
      /\ PlanStarted =>
            /\ invoked[1] = Ran("docspec generate", 0, "ok")
            /\ ~ImplementationStarted =>
                  (exists(md_path) /\ exists(generated_docspec_path))
      /\ (pc = "raised" /\ raised.type = "FileNotFoundError") => ~PlanStarted
      /\ ImplementationStarted =>
            /\ PlanStarted
            /\ Ran("claude", 1, "ok") \in Range(invoked)
            /\ Printed("Plan generated")
            /\ Part("Plan preview", NoPath, <<"PLAN">>) \in Range(stdout)
            /\ Part("Plan preview", NoPath, <<>>) \notin Range(stdout)
      /\ (pc = "raised" /\ raised.msg = "Claude plan mode returned empty output") =>
            ~ImplementationStarted
      /\ VerificationStarted =>
            /\ ImplementationStarted
            /\ Ran("claude", 2, "ok") \in Range(invoked)
      /\ ValidationStarted =>
            /\ VerificationStarted
            /\ exists(md_path)
            /\ exists(generated_docspec_path)
      /\ (pc = "raised" /\ raised.msg \in {"Markdown file was deleted",
                                           "Docspec file was deleted"}) =>
            ~ValidationStarted
      /\ pc = "returned" => (ValidationStarted /\ Len(invoked) = Len(PhaseCommands))

\* all phases ran: the six commands were run in order, the version check
\* of the implementation phase was only warned about
C28_Witness ==
    /\ IsGenerateRun
    /\ pc = "returned"
    /\ ValidationStarted
    /\ Len(invoked) = 6
    /\ invoked[4] = Ran("claude --version", 2, "nonzero")
    /\ invoked[6] = Ran("docspec validate", 0, "ok")

-----------------------------------------------------------------------------
\* the pair the loop of docspec_update main handled last, its target
\* markdown and the patch Claude returned for it
LastPair == call.arg.pair
LastPatch == call.arg.patch
LastTarget == target_markdown_for_docspec(docspec_paths[LastPair])[1]

\* git apply was invoked for the i-th pair
GitApplyRanFor(i) ==
    \E j \in 1..Len(invoked) :
        invoked[j].cmd = "git apply" /\ invoked[j].arg = i

\* the patch starts with "diff --git" or "--- "
StartsWithMarker(patch) ==
    patch # <<>> /\ patch[1] \in {"diff --git", "--- "}

\* the patch holds the path of the target markdown, absolute or relative to
\* the repository root (for a file of the root, its name is that path)
MentionsPath(patch, target) ==
    \/ "ABS" \in Range(patch)
    \/ "REL" \in Range(patch)
    \/ "NAME" \in Range(patch) /\ target.dir = repo_root

\* the patch holds what the script looks for: the absolute path of the
\* target markdown (docspec-claude); its path or at least its file name
\* (docspec-sync)
MentionsTarget(script, patch) ==
    \/ "ABS" \in Range(patch)
    \/ script = "docspec-sync" /\ \E m \in {"REL", "NAME"} : m \in Range(patch)

\* C29 as stated: git apply is invoked only with a patch that is not empty,
\* starts with "diff --git" or "--- " and references the path of the target
\* markdown; an empty patch leads to no git apply for the pair and the loop
\* goes on; a patch failing either check raises RuntimeError and git apply
\* is not invoked.
C29_GitApplyOnlyForPatchOfTargetPath ==
    LastPair >= 1 =>
      /\ GitApplyRanFor(LastPair) =>
            /\ LastPatch # <<>>
            /\ StartsWithMarker(LastPatch)
            /\ MentionsPath(LastPatch, LastTarget)
      /\ LastPatch = <<>> =>
            /\ ~GitApplyRanFor(LastPair)
            /\ pc # "raised"
            /\ idx > LastPair
      /\ (/\ LastPatch # <<>>
          /\ ~(StartsWithMarker(LastPatch) /\ MentionsPath(LastPatch, LastTarget))) =>
            /\ pc = "raised"
            /\ raised.type = "RuntimeError"
            /\ ~GitApplyRanFor(LastPair)

\* C29: git apply is invoked only with a patch that is not empty, starts
\* with "diff --git" or "--- " and holds the absolute path of the target
\* markdown (docspec-claude) or its path or at least its file name
\* (docspec-sync); an empty patch leads to no git apply for the pair and the
\* loop goes on; a patch failing either check raises RuntimeError and git
\* apply is not invoked.
C29_GitApplyOnlyForCheckedPatch ==
    LastPair >= 1 =>
      /\ GitApplyRanFor(LastPair) =>
            /\ LastPatch # <<>>
            /\ StartsWithMarker(LastPatch)
            /\ MentionsTarget(call.fn, LastPatch)
      /\ LastPatch = <<>> =>
            /\ ~GitApplyRanFor(LastPair)
            /\ pc # "raised"
            /\ idx > LastPair
      /\ (/\ LastPatch # <<>>
          /\ ~(StartsWithMarker(LastPatch) /\ MentionsTarget(call.fn, LastPatch))) =>
            /\ pc = "raised"
            /\ raised.type = "RuntimeError"
            /\ ~GitApplyRanFor(LastPair)

\* docspec-sync: the patch for the first pair was empty and the loop went
\* on; the patch for a/API.md starts with a marker and holds the file name
\* only, and git apply was run with it
C29_Witness ==
    /\ call.fn = "docspec-sync"
    /\ pc = "returned"
    /\ LastPair = 2
    /\ LastPatch = <<"--- ", "NAME">>
    /\ invoked = <<Ran("git apply", 2, "ok")>>
    /\ Part("No change needed for", Abs(F_README_MD), <<>>) \in Range(stdout)

-----------------------------------------------------------------------------
\* the docspec path was derived from a markdown path and mapped back
MappedBack == pc = "ret" /\ call.fn = "with_suffix"

\* the name ends in ".md" and not in ".docspec.md"
IsMarkdownName(n) == EndsWith(n, DOT_MD) /\ ~HasDocspecSuffix(n)

\* C30 as stated: for every markdown path whose name ends in ".md" but not
\* in ".docspec.md", the docspec path derived with with_suffix(".docspec.md")
\* is mapped back to the markdown path by target_markdown_for_docspec.
C30_RoundTrip ==
    (MappedBack /\ IsMarkdownName(call.arg.name)) =>
        call.ret.md = Some(call.arg)

\* C30: for every markdown path whose name ends in ".md" but not in
\* ".docspec.md" and is not ".md" alone, the docspec path derived with
\* with_suffix(".docspec.md") is the name with its final ".md" replaced by
\* ".docspec.md", and target_markdown_for_docspec maps it back to the
\* markdown path.
C30_RoundTripWithStem ==
    (MappedBack /\ IsMarkdownName(call.arg.name) /\ call.arg.name # DOT_MD) =>
        /\ call.ret.docspec =
              [dir  |-> call.arg.dir,
               name |-> SubSeq(call.arg.name, 1, Len(call.arg.name) - Len(DOT_MD))
                          \o DOT_DOCSPEC_MD]
        /\ call.ret.md = Some(call.arg)

\* a/x.x.md gave a/x.x.docspec.md, which was mapped back to a/x.x.md
C30_Witness ==
    /\ MappedBack
    /\ call.arg = [dir |-> <<"a">>, name |-> <<"x", ".", "x", ".", "md">>]
    /\ call.ret.docspec.name = <<"x", ".", "x", ".", "docspec", ".", "md">>
    /\ call.ret.md = Some(call.arg)
====
